---- MODULE Spec2Model ----
(***************************************************************************)
(* Recommendation core of the book-recommendation backend:                *)
(* services/ml_recommender.py, services/recommendation_engine.py and the  *)
(* Book / UserProfile data classes of models/.                            *)
(*                                                                         *)
(* Floats are fixed-point integers with One standing for 1.0; One is a    *)
(* multiple of every denominator the scoring arithmetic produces inside   *)
(* the bounds, so the arithmetic below is exact.  Ratings are in tenths.  *)
(* Reason strings are not modelled, except for the list of contributing   *)
(* algorithms (field "by" of a recommendation).                           *)
(***************************************************************************)
EXTENDS Integers, Sequences, FiniteSets, TLC

One == 9000000

\* Python None, for a string, for a number and for a list
None == "None"
NoneNum == 0 - (2 * One)
NoneSeq == <<"None">>
\* a key that a dict does not hold
Absent == "Absent"

\* ------------------------------------------------------------ bounds
MaxCands == 4
MaxTopN == 3
MaxHist == 1
MaxRecs == 5
MaxList == 2
MaxDivTopN == 4
MaxPerm == 3
MaxProfile == 4
MaxContextRecs == 3
MaxScoreHist == 2
MaxEditionTens == 12
MaxWords == 4
MaxTies == 3

\* ------------------------------------------------------------ arithmetic
Min(a, b) == IF a <= b THEN a ELSE b
Max(a, b) == IF a >= b THEN a ELSE b

\* x * (n / d)
Mul(x, n, d) == (x * n) \div d

Range(s) == {s[i] : i \in 1..Len(s)}

\* Python truthiness of an Optional[float|int] and of an Optional[list]
TruthyNum(v) == v # NoneNum /\ v # 0
TruthySeq(s) == s # NoneSeq /\ s # <<>>

\* s[:n] for n >= 0
Take(s, n) == SubSeq(s, 1, Min(n, Len(s)))

\* ------------------------------------------------------------ strings
\* str.lower() on the strings that occur in the model
Lower(s) ==
  CASE s = "Happy" -> "happy"
    [] s = "SAD" -> "sad"
    [] s = "Comedy" -> "comedy"
    [] s = "Romance" -> "romance"
    [] s = "Melodrama" -> "melodrama"
    [] s = "Great" -> "great"
    [] s = "DULL" -> "dull"
    [] OTHER -> s

\* `genre in bg`: substring test on lower-cased subject strings
ProperSubstrings == {<<"comedy", "romantic comedy">>, <<"drama", "melodrama">>}
Contains(bg, genre) == genre = bg \/ <<genre, bg>> \in ProperSubstrings

\* ------------------------------------------------------------ catalog
\* calculate_popularity_score without the cap on the edition score
calculate_popularity_score_uncapped(edition_count, rating) ==
  LET edition_score == Mul(One, edition_count, 100)
      rating_score == Mul(One, IF TruthyNum(rating) THEN rating ELSE 0, 50)
  IN  Mul(edition_score, 4, 10) + Mul(rating_score, 6, 10)

\* calculate_popularity_score: min(edition_count/100, 1.0)*0.4 + (rating or 0)/5.0*0.6
calculate_popularity_score(edition_count, rating) ==
  LET edition_score == Min(Mul(One, edition_count, 100), One)
      rating_score == Mul(One, IF TruthyNum(rating) THEN rating ELSE 0, 50)
  IN  Mul(edition_score, 4, 10) + Mul(rating_score, 6, 10)

\* the documents a data provider answers a search with
ProviderDocs ==
  << [title |-> "Dune", authors |-> <<"Herbert">>, year |-> 1965,
      edition_count |-> 120, subjects |-> <<"fantasy", "desert">>,
      work_id |-> "W1", rating |-> 45, page_count |-> 250],
     [title |-> "Messiah", authors |-> <<"Herbert">>, year |-> 2025,
      edition_count |-> 50, subjects |-> <<"fantasy">>,
      work_id |-> "W2", rating |-> 40, page_count |-> 350],
     [title |-> "Emma", authors |-> <<"Austen">>, year |-> 1815,
      edition_count |-> 25,
      subjects |-> <<"Comedy", "Romance", "humor", "feel-good">>,
      work_id |-> None, rating |-> 35, page_count |-> NoneNum],
     [title |-> "Sanditon", authors |-> <<"Austen">>, year |-> 2026,
      edition_count |-> 10, subjects |-> <<"Romance", "Melodrama">>,
      work_id |-> "W4", rating |-> NoneNum, page_count |-> 450],
     [title |-> "Emma", authors |-> <<"Austen", "Shelley">>, year |-> 0,
      edition_count |-> 0, subjects |-> NoneSeq,
      work_id |-> None, rating |-> NoneNum, page_count |-> 300],
     \* a record with no text content at all
     [title |-> "", authors |-> <<>>, year |-> 0,
      edition_count |-> 0, subjects |-> <<>>,
      work_id |-> None, rating |-> NoneNum, page_count |-> NoneNum],
     [title |-> "Persuasion", authors |-> <<"Austen">>, year |-> 1817,
      edition_count |-> 30, subjects |-> <<>>,
      work_id |-> "W7", rating |-> NoneNum, page_count |-> 240],
     [title |-> "Lady Susan", authors |-> <<"Austen">>, year |-> 1871,
      edition_count |-> 5, subjects |-> NoneSeq,
      work_id |-> "W8", rating |-> NoneNum, page_count |-> 80],
     [title |-> "Children", authors |-> <<"Herbert">>, year |-> 1976,
      edition_count |-> 40, subjects |-> <<"fantasy">>,
      work_id |-> "W9", rating |-> 40, page_count |-> 400],
     [title |-> "Hamlet", authors |-> <<"Shakespeare">>, year |-> 1603,
      edition_count |-> 200, subjects |-> <<"drama", "poetry">>,
      work_id |-> "W10", rating |-> 50, page_count |-> 120],
     [title |-> "Macbeth", authors |-> <<"Shakespeare">>, year |-> 1606,
      edition_count |-> 150, subjects |-> <<"drama", "poetry">>,
      work_id |-> "W11", rating |-> 45, page_count |-> 100] >>

\* A Book as a data provider constructs it from a document, its
\* popularity_score set from the formula
ProviderBook(doc) ==
  [title |-> doc.title, authors |-> doc.authors, year |-> doc.year,
   edition_count |-> doc.edition_count, subjects |-> doc.subjects,
   work_id |-> doc.work_id, rating |-> doc.rating,
   page_count |-> doc.page_count,
   popularity_score |->
     calculate_popularity_score(doc.edition_count, doc.rating)]

CurrentYear == 2026

\* the Book objects the callers hold, by object identity
Catalog == [b \in 1..Len(ProviderDocs) |-> ProviderBook(ProviderDocs[b])]

\* catalog: the fields of the Book objects that the providers set;
\* description, sentiment: the two fields written after construction;
\* strategy: the engine's recommender; op, result, raised: the call in
\* progress, what it returned and whether it raised; cands: the caller's
\* candidate list as the call leaves it
VARIABLES catalog, description, sentiment, strategy, op, result, raised, cands

\* user_item_matrix: the matrix of a CollaborativeFilteringRecommender;
\* vectorizer: what the TfidfVectorizer of a TFIDFRecommender was last
\* fitted on; threads: the frames of the calls that run concurrently;
\* user_profile: a UserProfile object; reference: an earlier call kept for
\* comparison.  They belong to the objects of the specifications SpecState,
\* SpecEnrich, SpecVectorizer, SpecProfile and SpecStrategy.  The other specifications do
\* not follow the two recommender fields: no code reads the matrix, and a
\* call that runs alone refits the vectorizer before it reads it.
VARIABLES user_item_matrix, vectorizer, threads, user_profile, reference

\* strategy_attr: the instance attribute `strategy` of the engine object,
\* Absent until a statement assigns it
VARIABLES strategy_attr

rest == <<user_item_matrix, vectorizer, threads, user_profile, reference,
          strategy_attr>>

vars == <<catalog, description, sentiment, strategy, op, result, raised, cands, rest>>

BookIds == 1..Len(ProviderDocs)
NoTextBook ==
  CHOOSE b \in BookIds :
    ProviderDocs[b].title = "" /\ ProviderDocs[b].authors = <<>>
\* the books the engine-level calls draw their candidates from
CandIds == 1..5

\* descriptions a Book can carry (word sequences) and the books that have one
DescTexts == { <<"a", "story">>,
               <<"a", "delightful", "story">>,
               <<"boring", "and", "dull", "and", "moving">> }
InitDescription ==
  [b \in BookIds |-> IF b = 3 THEN <<"a", "story">> ELSE NoneSeq]
MutableBooks == {3}

\* ------------------------------------------------------------ recommendations
\* BookRecommendation(book, score, algorithm, reasons); `by` is the list of
\* algorithms the final reason "Recommended by: ..." names.
Rec(b, sc, alg, by) == [book |-> b, score |-> sc, algorithm |-> alg, by |-> by]

\* list.sort(reverse=True) with BookRecommendation.__lt__ (score only):
\* descending, equal scores keep their input order.
RECURSIVE InsertDesc(_, _)

\* an insertion that puts the item before the items of equal score
InsertDesc_beforeEqual(r, s) ==
  LET above == Cardinality({i \in 1..Len(s) : s[i].score > r.score})
  IN  SubSeq(s, 1, above) \o <<r>> \o SubSeq(s, above + 1, Len(s))

InsertDesc(r, s) ==
  IF s = <<>> THEN <<r>>
  ELSE IF Head(s).score < r.score THEN <<r>> \o s
       ELSE <<Head(s)>> \o InsertDesc(r, Tail(s))

RECURSIVE SortDesc(_)
SortDesc(s) ==
  IF s = <<>> THEN <<>>
  ELSE InsertDesc(s[Len(s)], SortDesc(SubSeq(s, 1, Len(s) - 1)))

RECURSIVE SumSeq(_)
SumSeq(s) == IF s = <<>> THEN 0 ELSE Head(s) + SumSeq(Tail(s))

RECURSIVE Dedup(_)
Dedup(s) ==
  IF s = <<>> THEN <<>>
  ELSE LET front == Dedup(SubSeq(s, 1, Len(s) - 1))
       IN  IF s[Len(s)] \in Range(front) THEN front
           ELSE Append(front, s[Len(s)])

RECURSIVE Flatten(_)
Flatten(ss) == IF ss = <<>> THEN <<>> ELSE Head(ss) \o Flatten(Tail(ss))

Count(x, s) == Cardinality({i \in 1..Len(s) : s[i] = x})

\* ------------------------------------------------------------ user profile
Entry(id, title, authors, rating, tags) ==
  [book_id |-> id, title |-> title, authors |-> authors, rating |-> rating,
   tags |-> tags]

\* every rated entry taken as liked
Liked_anyRated(entry) == TruthyNum(entry.rating)

\* `entry.rating and entry.rating >= 4.0`
Liked(entry) == TruthyNum(entry.rating) /\ entry.rating >= 40

\* sorted(counts.keys(), key=counts.get, reverse=True)[:10]
TopTen(names) ==
  LET keys == Dedup(names)
      counted == [i \in 1..Len(keys) |->
                    [name |-> keys[i], score |-> Count(keys[i], names)]]
      ranked == SortDesc(counted)
  IN  Take([i \in 1..Len(ranked) |-> ranked[i].name], 10)

\* UserProfile after add_to_history of each entry of `history` in turn
\* (_update_preferences recomputes both favourites from the whole history)
ProfileOf(history) ==
  LET liked == SelectSeq(history, Liked)
  IN  [present |-> TRUE, reading_history |-> history,
       favorite_authors |->
         TopTen(Flatten([i \in 1..Len(liked) |-> liked[i].authors])),
       favorite_genres |->
         TopTen(Flatten([i \in 1..Len(liked) |-> liked[i].tags]))]

\* user_profile = None
NoProfile ==
  [present |-> FALSE, reading_history |-> <<>>, favorite_authors |-> <<>>,
   favorite_genres |-> <<>>]

EntryUniverse ==
  { Entry("W1", "Dune", <<"Herbert">>, 50, <<"fantasy">>),
    Entry("E3", "Emma", <<"Austen">>, 40, <<"Romance", "humor">>),
    Entry("W2", "Messiah", <<"Herbert">>, 30, <<"desert">>),
    Entry("X9", "Ulysses", <<"Joyce">>, NoneNum, <<>>) }

RECURSIVE SeqsUpTo(_, _)
SeqsUpTo(S, n) ==
  IF n = 0 THEN {<<>>}
  ELSE LET shorter == SeqsUpTo(S, n - 1)
       IN  shorter \cup {Append(q, x) : q \in shorter, x \in S}

\* the sequences of at most n distinct elements of S
RECURSIVE DistinctSeqs(_, _)
DistinctSeqs(S, n) ==
  IF n = 0 THEN {<<>>}
  ELSE LET shorter == DistinctSeqs(S, n - 1)
       IN  shorter
           \cup UNION {{Append(q, x) : x \in S \ Range(q)} : q \in shorter}

Histories == SeqsUpTo(EntryUniverse, MaxHist)
Profiles == {NoProfile} \cup {ProfileOf(h) : h \in Histories}

\* ------------------------------------------------------------ sentiment
POSITIVE_WORDS ==
  {"excellent", "amazing", "wonderful", "brilliant", "outstanding",
   "fantastic", "great", "good", "best", "love", "beautiful", "perfect",
   "incredible", "masterpiece", "compelling", "engaging", "captivating",
   "thrilling", "inspiring", "powerful", "moving", "delightful",
   "entertaining"}

NEGATIVE_WORDS ==
  {"bad", "terrible", "awful", "horrible", "poor", "worst", "disappointing",
   "boring", "dull", "weak", "confusing", "tedious", "mediocre", "bland",
   "predictable", "slow", "frustrating"}

\* analyze looking the words up as they are spelled
analyze_asSpelled(text) ==
  IF ~TruthySeq(text) THEN 0
  ELSE LET positive_count ==
             Cardinality({i \in 1..Len(text) : text[i] \in POSITIVE_WORDS})
           negative_count ==
             Cardinality({i \in 1..Len(text) : text[i] \in NEGATIVE_WORDS})
           total == positive_count + negative_count
       IN  IF total = 0 THEN 0
           ELSE IF positive_count >= negative_count
                THEN Mul(One, positive_count - negative_count, total)
                ELSE 0 - Mul(One, negative_count - positive_count, total)

\* SentimentAnalyzer.analyze on a text given as its word sequence
analyze(text) ==
  IF ~TruthySeq(text) THEN 0
  ELSE LET words == [i \in 1..Len(text) |-> Lower(text[i])]
           positive_count ==
             Cardinality({i \in 1..Len(words) : words[i] \in POSITIVE_WORDS})
           negative_count ==
             Cardinality({i \in 1..Len(words) : words[i] \in NEGATIVE_WORDS})
           total == positive_count + negative_count
       IN  IF total = 0 THEN 0
           ELSE IF positive_count >= negative_count
                THEN Mul(One, positive_count - negative_count, total)
                ELSE 0 - Mul(One, negative_count - positive_count, total)

get_sentiment_label(score) ==
  IF score > Mul(One, 3, 10) THEN "Positive"
  ELSE IF score < 0 - Mul(One, 3, 10) THEN "Negative"
       ELSE "Neutral"

\* ------------------------------------------------------------ text similarity
STOP_WORDS == {"a", "and", "the"}

\* Book.get_text_representation, _preprocess_text and the vectorizer's
\* tokenizer: the terms of a book's text.  d is the description heap.
Terms(d, b) ==
  LET book == catalog[b]
      parts == <<book.title>> \o book.authors
               \o (IF TruthySeq(book.subjects) THEN book.subjects ELSE <<>>)
               \o (IF TruthySeq(d[b]) THEN d[b] ELSE <<>>)
      lowered == [i \in 1..Len(parts) |-> Lower(parts[i])]
  IN  SelectSeq(lowered, LAMBDA w : w # "" /\ w \notin STOP_WORDS)

Dot(x, y) ==
  SumSeq([i \in 1..Len(x) |-> Count(x[i], y)])

\* smallest r in 0..100 with (r/100)^2 >= dot^2 / (|x|^2 |y|^2): the cosine
\* of the two term-count vectors, rounded up to a hundredth
CosineSim(x, y) ==
  LET dot == Dot(x, y)
      nx == Dot(x, x)
      ny == Dot(y, y)
      r == CHOOSE k \in 0..100 :
             /\ k * k * nx * ny >= 10000 * dot * dot
             /\ (k = 0 \/ (k - 1) * (k - 1) * nx * ny < 10000 * dot * dot)
  IN  IF nx = 0 \/ ny = 0 THEN 0 ELSE Mul(One, r, 100)

\* fit_transform raises on an empty vocabulary, cosine_similarity on an
\* empty candidate matrix
VectorizerRaises(d, target, candidates) ==
  \/ candidates = <<>>
  \/ /\ Terms(d, target) = <<>>
     /\ \A i \in 1..Len(candidates) : Terms(d, candidates[i]) = <<>>

\* _apply_user_boost whose two boosts do not compose: the author boost
\* alone when both apply
_apply_user_boost_oneBoost(score, b, profile) ==
  LET book == catalog[b]
      a == \E x \in Range(book.authors) : x \in Range(profile.favorite_authors)
      g == /\ TruthySeq(book.subjects)
           /\ \E x \in Range(book.subjects) :
                 x \in Range(profile.favorite_genres)
  IN  Min(IF a THEN Mul(score, 13, 10)
          ELSE IF g THEN Mul(score, 12, 10) ELSE score, One)

\* TFIDFRecommender._apply_user_boost
_apply_user_boost(score, b, profile) ==
  LET book == catalog[b]
      a == \E x \in Range(book.authors) : x \in Range(profile.favorite_authors)
      g == /\ TruthySeq(book.subjects)
           /\ \E x \in Range(book.subjects) :
                 x \in Range(profile.favorite_genres)
      boosted1 == IF a THEN Mul(score, 13, 10) ELSE score
      boosted2 == IF g THEN Mul(boosted1, 12, 10) ELSE boosted1
  IN  Min(boosted2, One)

Threshold == One \div 10

\* the loop of TFIDFRecommender.recommend over the similarities, its sort
\* and its slice, for the candidates whose similarity exceeds `floor`
TFIDFRanked(d, target, candidates, profile, top_n, floor) ==
  LET similarities ==
        [i \in 1..Len(candidates) |->
           [book |-> candidates[i],
            raw |-> CosineSim(Terms(d, target), Terms(d, candidates[i]))]]
      Recommendation(x) ==
        Rec(x.book,
            IF profile.present THEN _apply_user_boost(x.raw, x.book, profile)
            ELSE x.raw,
            "TF-IDF Content-Based", <<"TF-IDF Content-Based">>)
      Recommendations(kept) ==
        [i \in 1..Len(kept) |-> Recommendation(kept[i])]
  IN  Take(SortDesc(Recommendations(
             SelectSeq(similarities, LAMBDA x : x.raw > floor))), top_n)

\* TFIDFRecommender.recommend without its relevance threshold
TFIDFRecommend_anyScore(d, target, candidates, profile, top_n, fault) ==
  IF fault = "tfidf" \/ VectorizerRaises(d, target, candidates) THEN <<>>
  ELSE TFIDFRanked(d, target, candidates, profile, top_n, 0 - 1)

\* TFIDFRecommender.recommend comparing the target with tfidf_matrix[0:],
\* the target's own row included
TFIDFRecommend_ownRow(d, target, candidates, profile, top_n, fault) ==
  IF fault = "tfidf" \/ VectorizerRaises(d, target, <<target>> \o candidates)
  THEN <<>>
  ELSE TFIDFRanked(d, target, <<target>> \o candidates, profile, top_n,
                   Threshold)

\* TFIDFRecommender.recommend testing the threshold on the boosted score
TFIDFRecommend_thresholdAfterBoost(d, target, candidates, profile, top_n, fault) ==
  IF fault = "tfidf" \/ VectorizerRaises(d, target, candidates) THEN <<>>
  ELSE LET boosted == TFIDFRanked(d, target, candidates, profile,
                                  Len(candidates), 0 - 1)
       IN  Take(SelectSeq(boosted, LAMBDA r : r.score > Threshold), top_n)

\* TFIDFRecommender.recommend; fault = "tfidf" stands for an exception
\* raised inside its try block
TFIDFRecommend(d, target, candidates, profile, top_n, fault) ==
  IF fault = "tfidf" \/ VectorizerRaises(d, target, candidates) THEN <<>>
  ELSE TFIDFRanked(d, target, candidates, profile, top_n, Threshold)

\* ------------------------------------------------------------ preference matcher
\* CollaborativeFilteringRecommender._calculate_item_similarity
_calculate_item_similarity(b, entry) ==
  LET book == catalog[b]
      author_part ==
        IF \E x \in Range(book.authors) : x \in Range(entry.authors)
        THEN One \div 2 ELSE 0
      first5 == IF TruthySeq(book.subjects) THEN Take(book.subjects, 5)
                ELSE <<>>
      common == Range(first5) \cap Range(entry.tags)
      genre_part ==
        IF TruthySeq(book.subjects) /\ entry.tags # <<>> /\ common # {}
        THEN Mul(Mul(One, 3, 10), Cardinality(common),
                 Max(Len(first5), Len(entry.tags)))
        ELSE 0
  IN  Min(author_part + genre_part, One)

\* _calculate_cf_score dividing by the number of all entries rated 4.0 or
\* more, similar to the book or not
_calculate_cf_score_countsAllLiked(b, profile) ==
  LET hist == profile.reading_history
      sims == [i \in 1..Len(hist) |->
                 IF Liked(hist[i]) THEN _calculate_item_similarity(b, hist[i])
                 ELSE 0]
      score == SumSeq([i \in 1..Len(hist) |-> Mul(sims[i], hist[i].rating, 10)])
      count == Cardinality({i \in 1..Len(hist) : Liked(hist[i])})
  IN  IF count > 0 THEN (score \div count) \div 5 ELSE 0

\* _calculate_cf_score weighting an entry with the rating the matrix holds
\* for its book_id, where it holds one
_calculate_cf_score_fromMatrix(b, profile) ==
  LET hist == profile.reading_history
      Kept(e) == IF user_item_matrix[e.book_id] # NoneNum
                 THEN user_item_matrix[e.book_id] ELSE e.rating
      sims == [i \in 1..Len(hist) |->
                 IF Liked(hist[i]) THEN _calculate_item_similarity(b, hist[i])
                 ELSE 0]
      score == SumSeq([i \in 1..Len(hist) |->
                         Mul(sims[i], Kept(hist[i]), 10)])
      count == Cardinality({i \in 1..Len(hist) : sims[i] > 0})
  IN  IF count > 0 THEN (score \div count) \div 5 ELSE 0

\* CollaborativeFilteringRecommender._calculate_cf_score
_calculate_cf_score(b, profile) ==
  LET hist == profile.reading_history
      sims == [i \in 1..Len(hist) |->
                 IF Liked(hist[i]) THEN _calculate_item_similarity(b, hist[i])
                 ELSE 0]
      score == SumSeq([i \in 1..Len(hist) |-> Mul(sims[i], hist[i].rating, 10)])
      count == Cardinality({i \in 1..Len(hist) : sims[i] > 0})
  IN  IF count > 0 THEN (score \div count) \div 5 ELSE 0

\* list.sort() without reverse=True: ascending, equal scores in input order
RECURSIVE InsertAsc(_, _)
InsertAsc(r, s) ==
  IF s = <<>> THEN <<r>>
  ELSE IF r.score < Head(s).score THEN <<r>> \o s
       ELSE <<Head(s)>> \o InsertAsc(r, Tail(s))

RECURSIVE SortAsc(_)
SortAsc(s) ==
  IF s = <<>> THEN <<>>
  ELSE InsertAsc(s[Len(s)], SortAsc(SubSeq(s, 1, Len(s) - 1)))

\* _popularity_based_recommendations sorting without reverse=True
_popularity_based_recommendations_ascending(candidates, top_n) ==
  LET Recommendation(b) ==
        Rec(b, catalog[b].popularity_score, "Popularity-Based",
            <<"Popularity-Based">>)
      Recommendations(kept) ==
        [i \in 1..Len(kept) |-> Recommendation(kept[i])]
  IN  Take(SortAsc(Recommendations(
             SelectSeq(candidates,
                       LAMBDA b : TruthyNum(catalog[b].popularity_score)))),
           top_n)

\* CollaborativeFilteringRecommender._popularity_based_recommendations
_popularity_based_recommendations(candidates, top_n) ==
  LET Recommendation(b) ==
        Rec(b, catalog[b].popularity_score, "Popularity-Based",
            <<"Popularity-Based">>)
      Recommendations(kept) ==
        [i \in 1..Len(kept) |-> Recommendation(kept[i])]
  IN  Take(SortDesc(Recommendations(
             SelectSeq(candidates,
                       LAMBDA b : TruthyNum(catalog[b].popularity_score)))),
           top_n)

\* CollaborativeFilteringRecommender.recommend raises: the popularity
\* ranking of a profile without history runs outside the try block, so an
\* exception in it (fault = "popularity") leaves the method
CFRaises(profile, fault) ==
  /\ fault = "popularity"
  /\ (~profile.present \/ profile.reading_history = <<>>)

\* the try block of CollaborativeFilteringRecommender.recommend
CFRanked(candidates, profile, top_n) ==
  LET Recommendation(b) ==
        Rec(b, _calculate_cf_score(b, profile), "Collaborative Filtering",
            <<"Collaborative Filtering">>)
      Recommendations(kept) ==
        [i \in 1..Len(kept) |-> Recommendation(kept[i])]
  IN  Take(SortDesc(Recommendations(
             SelectSeq(candidates,
                       LAMBDA b : _calculate_cf_score(b, profile) > 0))),
           top_n)

\* CollaborativeFilteringRecommender.recommend whose handler returns []
\* instead of the popularity ranking
CFRecommend_emptyOnError(candidates, profile, top_n, fault) ==
  IF ~profile.present \/ profile.reading_history = <<>>
  THEN _popularity_based_recommendations(candidates, top_n)
  ELSE IF fault = "cf" THEN <<>>
       ELSE CFRanked(candidates, profile, top_n)

\* CollaborativeFilteringRecommender.recommend that answers with the
\* popularity ranking when no candidate scores above 0
CFRecommend_popularityWhenNoMatch(candidates, profile, top_n, fault) ==
  IF ~profile.present \/ profile.reading_history = <<>>
  THEN _popularity_based_recommendations(candidates, top_n)
  ELSE IF fault = "cf" \/ CFRanked(candidates, profile, top_n) = <<>>
       THEN _popularity_based_recommendations(candidates, top_n)
       ELSE CFRanked(candidates, profile, top_n)

\* CollaborativeFilteringRecommender.recommend, when it returns; fault = "cf"
\* stands for an exception raised inside its try block
CFRecommend(candidates, profile, top_n, fault) ==
  IF ~profile.present \/ profile.reading_history = <<>>
  THEN _popularity_based_recommendations(candidates, top_n)
  ELSE IF fault = "cf"
       THEN _popularity_based_recommendations(candidates, top_n)
       ELSE CFRanked(candidates, profile, top_n)

\* ------------------------------------------------------------ hybrid combiner
\* rec.book.work_id or rec.book.title
BookKey(b) ==
  IF catalog[b].work_id # None /\ catalog[b].work_id # ""
  THEN catalog[b].work_id ELSE catalog[b].title

\* a merge loop that keeps one entry for each recommendation emitted, not
\* one for each book identity
Combine_notMerged(emitted) ==
  [i \in 1..Len(emitted) |->
     Rec(emitted[i].book, Min(emitted[i].score \div 2, One), "Hybrid ML",
         <<emitted[i].algorithm>>)]

\* the merge loop of MLRecommender.recommend: `emitted` is the sequence of
\* the strategies' recommendations, each with its weighted score, in the
\* order the loop sees them
Combine(emitted) ==
  LET keys == Dedup([i \in 1..Len(emitted) |-> BookKey(emitted[i].book)])
      Of(k) == SelectSeq(emitted, LAMBDA e : BookKey(e.book) = k)
      Hybrid(k) ==
        LET data == Of(k)
            summed == SumSeq([i \in 1..Len(data) |-> data[i].score])
            combined_score == summed \div 2
            boosted == IF Len(data) > 1 THEN Mul(combined_score, 12, 10)
                       ELSE combined_score
        IN  Rec(data[1].book, Min(boosted, One), "Hybrid ML",
                [i \in 1..Len(data) |-> data[i].algorithm])
  IN  [i \in 1..Len(keys) |-> Hybrid(keys[i])]

Weighted(recs, n, dd) ==
  [i \in 1..Len(recs) |-> [recs[i] EXCEPT !.score = Mul(@, n, dd)]]

\* MLRecommender.recommend; fault = "hybrid" stands for an exception raised
\* in the combiner's own code.  Its handler catches that and whatever a
\* strategy lets out, and answers with the first strategy alone.
MLRecommend(d, target, candidates, profile, top_n, fault) ==
  IF fault = "hybrid" \/ CFRaises(profile, fault)
  THEN TFIDFRecommend(d, target, candidates, profile, top_n, "none")
  ELSE LET tf == TFIDFRecommend(d, target, candidates, profile, 2 * top_n,
                                fault)
           cf == CFRecommend(candidates, profile, 2 * top_n, fault)
           hybrid_recommendations ==
             Combine(Weighted(tf, 6, 10) \o Weighted(cf, 4, 10))
       IN  Take(SortDesc(hybrid_recommendations), top_n)

\* ------------------------------------------------------------ engine helpers
\* RecommendationEngine._enrich_with_sentiment: the sentiment heap after it
_enrich_with_sentiment(d, s, books) ==
  [b \in BookIds |->
     IF b \in Range(books) /\ TruthySeq(d[b]) /\ ~TruthyNum(s[b])
     THEN analyze(d[b]) ELSE s[b]]

\* context = None, and a context dict with its two recognised keys
NoContext == [present |-> FALSE, time_of_day |-> Absent, reading_goal |-> Absent]
Context(t, g) == [present |-> TRUE, time_of_day |-> t, reading_goal |-> g]

\* _apply_context_filters that returns the list without sorting it again
_apply_context_filters_notSorted(recommendations, context) ==
  LET pages(r) == catalog[r.book].page_count
      boosted ==
        IF context.time_of_day = "night"
        THEN [i \in 1..Len(recommendations) |->
                IF TruthyNum(pages(recommendations[i]))
                   /\ pages(recommendations[i]) < 300
                THEN [recommendations[i] EXCEPT !.score = Mul(@, 11, 10)]
                ELSE recommendations[i]]
        ELSE recommendations
  IN  IF context.reading_goal = "quick_read"
      THEN SelectSeq(boosted,
                     LAMBDA r : ~TruthyNum(pages(r)) \/ pages(r) < 400)
      ELSE IF context.reading_goal = "deep_dive"
           THEN SelectSeq(boosted,
                          LAMBDA r : TruthyNum(pages(r)) /\ pages(r) > 300)
           ELSE boosted

\* RecommendationEngine._apply_context_filters
_apply_context_filters(recommendations, context) ==
  LET pages(r) == catalog[r.book].page_count
      boosted ==
        IF context.time_of_day = "night"
        THEN [i \in 1..Len(recommendations) |->
                IF TruthyNum(pages(recommendations[i]))
                   /\ pages(recommendations[i]) < 300
                THEN [recommendations[i] EXCEPT !.score = Mul(@, 11, 10)]
                ELSE recommendations[i]]
        ELSE recommendations
      filtered ==
        IF context.reading_goal = "quick_read"
        THEN SelectSeq(boosted,
                       LAMBDA r : ~TruthyNum(pages(r)) \/ pages(r) < 400)
        ELSE IF context.reading_goal = "deep_dive"
             THEN SelectSeq(boosted,
                            LAMBDA r : TruthyNum(pages(r)) /\ pages(r) > 300)
             ELSE boosted
  IN  SortDesc(filtered)

First3(b) ==
  IF TruthySeq(catalog[b].subjects) THEN Take(catalog[b].subjects, 3)
  ELSE <<>>

\* first pass of _ensure_diversity that never records the authors it admits
RECURSIVE FirstPass_authorsNotRecorded(_, _, _, _, _, _)
FirstPass_authorsNotRecorded(recs, top_n, i, diverse_recs, seen_authors, seen_subjects) ==
  IF i > Len(recs) \/ Len(diverse_recs) >= top_n THEN diverse_recs
  ELSE LET rec == recs[i]
           authors == Range(catalog[rec.book].authors)
           authors_new == authors \cap seen_authors = {}
           subjects_new ==
             IF TruthySeq(catalog[rec.book].subjects)
             THEN Range(First3(rec.book)) \cap seen_subjects = {}
             ELSE TRUE
       IN  IF authors_new \/ subjects_new
              \/ Len(diverse_recs) < top_n \div 2
           THEN FirstPass_authorsNotRecorded(
                  recs, top_n, i + 1, Append(diverse_recs, rec),
                  seen_authors, seen_subjects \cup Range(First3(rec.book)))
           ELSE FirstPass_authorsNotRecorded(
                  recs, top_n, i + 1, diverse_recs, seen_authors,
                  seen_subjects)

\* first pass of _ensure_diversity, from position i with the accumulators
RECURSIVE FirstPass(_, _, _, _, _, _)
FirstPass(recs, top_n, i, diverse_recs, seen_authors, seen_subjects) ==
  IF i > Len(recs) \/ Len(diverse_recs) >= top_n THEN diverse_recs
  ELSE LET rec == recs[i]
           authors == Range(catalog[rec.book].authors)
           authors_new == authors \cap seen_authors = {}
           subjects_new ==
             IF TruthySeq(catalog[rec.book].subjects)
             THEN Range(First3(rec.book)) \cap seen_subjects = {}
             ELSE TRUE
       IN  IF authors_new \/ subjects_new
              \/ Len(diverse_recs) < top_n \div 2
           THEN FirstPass(recs, top_n, i + 1, Append(diverse_recs, rec),
                          seen_authors \cup authors,
                          seen_subjects \cup Range(First3(rec.book)))
           ELSE FirstPass(recs, top_n, i + 1, diverse_recs, seen_authors,
                          seen_subjects)

\* fill loop of _ensure_diversity, from position i
RECURSIVE Fill(_, _, _, _)
Fill(recs, top_n, i, diverse_recs) ==
  IF i > Len(recs) \/ Len(diverse_recs) >= top_n THEN diverse_recs
  ELSE IF recs[i] \notin Range(diverse_recs)
       THEN Fill(recs, top_n, i + 1, Append(diverse_recs, recs[i]))
       ELSE Fill(recs, top_n, i + 1, diverse_recs)

\* RecommendationEngine._ensure_diversity
_ensure_diversity(recommendations, top_n) ==
  IF Len(recommendations) <= top_n THEN recommendations
  ELSE Fill(recommendations, top_n, 1,
            FirstPass(recommendations, top_n, 1, <<>>, {}, {}))

\* self.recommender.recommend lets an exception out: only the preference
\* matcher used on its own can
RecommendRaises(strat, profile, fault) ==
  strat = "collaborative" /\ CFRaises(profile, fault)

\* self.recommender.recommend for the strategy the engine was built with
Recommend(strat, d, target, candidates, profile, top_n, fault) ==
  CASE strat = "tfidf" ->
         TFIDFRecommend(d, target, candidates, profile, top_n, fault)
    [] strat = "collaborative" ->
         CFRecommend(candidates, profile, top_n, fault)
    [] OTHER ->
         MLRecommend(d, target, candidates, profile, top_n, fault)

\* RecommendationEngine.get_recommendations: the returned list;
\* fault = "engine" stands for an exception raised in the context or
\* diversity step.  The method's handler turns every exception into [].
get_recommendations(strat, d, target, candidates, profile, context, top_n, fault) ==
  IF fault = "engine" \/ RecommendRaises(strat, profile, fault) THEN <<>>
  ELSE LET base == Recommend(strat, d, target, candidates, profile,
                             2 * top_n, fault)
           adjusted == IF context.present
                          /\ (context.time_of_day # Absent
                              \/ context.reading_goal # Absent)
                       THEN _apply_context_filters(base, context)
                       ELSE base
       IN  Take(_ensure_diversity(adjusted, top_n), top_n)

\* the time_window filter with "classic" testing year < 2000 alone
TrendingFilter_unknownYearClassic(candidates, time_window) ==
  CASE time_window = "recent" ->
         SelectSeq(candidates,
                   LAMBDA b : catalog[b].year # 0
                              /\ catalog[b].year >= CurrentYear - 2)
    [] time_window = "this_year" ->
         SelectSeq(candidates, LAMBDA b : catalog[b].year = CurrentYear)
    [] time_window = "classic" ->
         SelectSeq(candidates, LAMBDA b : catalog[b].year < 2000)
    [] OTHER -> candidates

\* the time_window filter of get_trending_recommendations
TrendingFilter(candidates, time_window) ==
  CASE time_window = "recent" ->
         SelectSeq(candidates,
                   LAMBDA b : catalog[b].year # 0
                              /\ catalog[b].year >= CurrentYear - 2)
    [] time_window = "this_year" ->
         SelectSeq(candidates, LAMBDA b : catalog[b].year = CurrentYear)
    [] time_window = "classic" ->
         SelectSeq(candidates,
                   LAMBDA b : catalog[b].year # 0 /\ catalog[b].year < 2000)
    [] OTHER -> candidates

PopularityOrZero(b) ==
  IF TruthyNum(catalog[b].popularity_score) THEN catalog[b].popularity_score
  ELSE 0

\* filtered.sort(key=lambda b: b.popularity_score or 0, reverse=True)
SortByPopularity(books) ==
  LET keyed == [i \in 1..Len(books) |->
                  [book |-> books[i], score |-> PopularityOrZero(books[i])]]
      sorted == SortDesc(keyed)
  IN  [i \in 1..Len(sorted) |-> sorted[i].book]

\* RecommendationEngine.get_trending_recommendations: the returned list
get_trending_recommendations(candidates, time_window, top_n) ==
  LET filtered == SortByPopularity(TrendingFilter(candidates, time_window))
      top == Take(filtered, top_n)
  IN  [i \in 1..Len(top) |->
         Rec(top[i],
             IF TruthyNum(catalog[top[i]].popularity_score)
             THEN catalog[top[i]].popularity_score ELSE One \div 2,
             "Trending", <<"Trending">>)]

\* mood_genres.get(mood.lower(), [])
MoodGenres(mood) ==
  CASE Lower(mood) = "happy" -> <<"comedy", "romance", "humor", "feel-good">>
    [] Lower(mood) = "sad" -> <<"drama", "literary fiction", "poetry">>
    [] Lower(mood) = "adventurous" ->
         <<"adventure", "action", "thriller", "fantasy">>
    [] Lower(mood) = "thoughtful" ->
         <<"philosophy", "non-fiction", "science", "history">>
    [] Lower(mood) = "relaxed" ->
         <<"mystery", "cozy", "light fiction", "travel">>
    [] OTHER -> <<>>

\* the score get_mood_based_recommendations gives a book
MoodScore(s, b, mood) ==
  LET target_genres == MoodGenres(mood)
      subjects == catalog[b].subjects
      book_genres == [i \in 1..Len(subjects) |-> Lower(subjects[i])]
      matches ==
        Cardinality({i \in 1..Len(target_genres) :
                       \E bg \in Range(book_genres) :
                          Contains(bg, target_genres[i])})
      score == IF TruthySeq(subjects) /\ target_genres # <<>>
               THEN Mul(One, matches, Len(target_genres)) ELSE 0
  IN  IF TruthyNum(s[b])
         /\ \/ (mood = "happy" /\ s[b] > 0)
            \/ (mood = "sad" /\ s[b] < 0)
      THEN Mul(score, 12, 10) ELSE score

\* get_mood_based_recommendations without its `if score > 0` test
get_mood_based_recommendations_keepZero(s, candidates, mood, top_n) ==
  LET scored == [i \in 1..Len(candidates) |->
                   Rec(candidates[i], MoodScore(s, candidates[i], mood),
                       "Mood-Based", <<"Mood-Based">>)]
  IN  Take(SortDesc(scored), top_n)

\* RecommendationEngine.get_mood_based_recommendations: the returned list
get_mood_based_recommendations(s, candidates, mood, top_n) ==
  LET scored == [i \in 1..Len(candidates) |->
                   Rec(candidates[i], MoodScore(s, candidates[i], mood),
                       "Mood-Based", <<"Mood-Based">>)]
      scored_books == SelectSeq(scored, LAMBDA r : r.score > 0)
  IN  Take(SortDesc(scored_books), top_n)


\* ------------------------------------------------------------ inputs
RECURSIVE SetToSeq(_)
SetToSeq(T) ==
  IF T = {} THEN <<>>
  ELSE LET m == CHOOSE x \in T : \A y \in T : x <= y
       IN  <<m>> \o SetToSeq(T \ {m})

\* candidate lists: up to MaxCands distinct books, in catalog order
CandLists ==
  {SetToSeq(T) : T \in {U \in SUBSET CandIds : Cardinality(U) <= MaxCands}}

\* the candidate lists of the trending and mood operations: those, and
\* every ordering of up to MaxPerm distinct books
OrderedLists == CandLists \cup DistinctSeqs(CandIds, MaxPerm)

Targets == {1, NoTextBook}
TopNs == 1..MaxTopN
Strategies == {"hybrid", "tfidf", "collaborative"}
Contexts ==
  {NoContext, Context("night", Absent), Context(Absent, "quick_read"),
   Context(Absent, "deep_dive"), Context("night", "deep_dive")}
EngineProfiles ==
  {NoProfile, ProfileOf(<<>>),
   ProfileOf(<<Entry("W1", "Dune", <<"Herbert">>, 50, <<"fantasy">>)>>)}
\* the places of get_recommendations an exception can be raised at, for an
\* engine built with strategy strat and a call with this profile
Faults(strat, profile) ==
  {"none", "engine"}
    \cup (IF strat \in {"hybrid", "tfidf"} THEN {"tfidf"} ELSE {})
    \cup (IF strat \in {"hybrid", "collaborative"}
             /\ profile.reading_history # <<>> THEN {"cf"} ELSE {})
    \cup (IF strat \in {"hybrid", "collaborative"}
             /\ profile.reading_history = <<>> THEN {"popularity"} ELSE {})
    \cup (IF strat = "hybrid" THEN {"hybrid"} ELSE {})
TimeWindows == {"recent", "this_year", "classic", "all_time"}
Moods == {"happy", "Happy", "sad", "adventurous", "sleepy"}

Call(name, target, candidates, profile, context, top_n, arg, fault) ==
  [name |-> name, target |-> target, candidates |-> candidates,
   profile |-> profile, context |-> context, top_n |-> top_n, arg |-> arg,
   fault |-> fault]

NoCall == Call("init", NoTextBook, <<>>, NoProfile, NoContext, 0, "", "none")

\* ------------------------------------------------------------ engine
\* defaultdict(lambda: defaultdict(float)) of the one user of the model: the
\* rating kept for each book_id, NoneNum for a book_id it does not hold
MatrixKeys == {e.book_id : e \in EntryUniverse}
EmptyMatrix == [k \in MatrixKeys |-> NoneNum]

\* a TfidfVectorizer before its first fit_transform
NotFitted == [fitted |-> FALSE, docs |-> <<>>]

NoThreads == <<>>

NoReference ==
  [present |-> FALSE, call |-> NoCall, description |-> <<>>,
   sentiment |-> <<>>, matrix |-> EmptyMatrix, result |-> <<>>]

\* newly constructed recommenders, no concurrent call, no profile object
RestInit ==
  /\ user_item_matrix = EmptyMatrix
  /\ vectorizer = NotFitted
  /\ threads = NoThreads
  /\ user_profile = NoProfile
  /\ strategy_attr = Absent
  /\ reference = NoReference

Init ==
  /\ catalog = Catalog
  /\ description = InitDescription
  /\ sentiment = [b \in BookIds |-> NoneNum]
  /\ strategy \in Strategies
  /\ op = NoCall
  /\ result = <<>>
  /\ raised = FALSE
  /\ cands = <<>>
  /\ RestInit

\* A call is made when the previous one has been consumed (Return).
GetRecommendations ==
  /\ op = NoCall
  /\ \E target \in Targets, candidates \in CandLists, profile \in EngineProfiles,
     context \in Contexts, top_n \in TopNs :
   \E fault \in Faults(strategy, profile) :
    /\ sentiment' = _enrich_with_sentiment(description, sentiment, candidates)
    /\ result' = get_recommendations(strategy, description, target,
                                     candidates, profile, context, top_n,
                                     fault)
    /\ raised' = FALSE
    /\ op' = Call("get_recommendations", target, candidates, profile,
                  context, top_n, "", fault)
    /\ cands' = candidates
    /\ UNCHANGED <<rest, catalog, description, strategy>>

\* get_trending_recommendations has no handler: a failing step (fault =
\* "raise") propagates to the caller
GetTrending ==
  /\ op = NoCall
  /\ \E candidates \in OrderedLists, time_window \in TimeWindows, top_n \in TopNs,
     fault \in {"none", "raise"} :
    /\ result' = IF fault = "raise" THEN <<>>
                 ELSE get_trending_recommendations(candidates, time_window,
                                                   top_n)
    /\ raised' = (fault = "raise")
    /\ op' = Call("get_trending_recommendations", NoTextBook, candidates,
                  NoProfile, NoContext, top_n, time_window, fault)
    \* an unrecognised window sorts the caller's own list in place
    /\ cands' = IF fault = "none"
                   /\ time_window \notin {"recent", "this_year", "classic"}
                THEN SortByPopularity(candidates) ELSE candidates
    /\ UNCHANGED <<rest, catalog, description, sentiment, strategy>>

\* get_mood_based_recommendations has no handler either
GetMoodBased ==
  /\ op = NoCall
  /\ \E candidates \in OrderedLists, mood \in Moods, top_n \in TopNs,
     fault \in {"none", "raise"} :
    /\ result' = IF fault = "raise" THEN <<>>
                 ELSE get_mood_based_recommendations(sentiment, candidates,
                                                     mood, top_n)
    /\ raised' = (fault = "raise")
    /\ op' = Call("get_mood_based_recommendations", NoTextBook, candidates,
                  NoProfile, NoContext, top_n, mood, fault)
    /\ cands' = candidates
    /\ UNCHANGED <<rest, catalog, description, sentiment, strategy>>

\* the caller edits the description of a Book it owns
MutateDescription ==
  /\ op = NoCall
  /\ \E b \in MutableBooks, text \in DescTexts :
    /\ description[b] # text
    /\ description' = [description EXCEPT ![b] = text]
    /\ UNCHANGED <<rest, catalog, sentiment, strategy, op, result, raised, cands>>

\* the caller has consumed the returned list (or the exception)
Return ==
  /\ op # NoCall
  /\ op' = NoCall
  /\ result' = <<>>
  /\ raised' = FALSE
  /\ cands' = <<>>
  /\ UNCHANGED <<rest, catalog, description, sentiment, strategy>>

Next ==
  \/ GetRecommendations
  \/ GetTrending
  \/ GetMoodBased
  \/ MutateDescription
  \/ Return

Spec == Init /\ [][Next]_vars

\* ------------------------------------------------------------ strategies
\* The three strategy classes called directly, with arbitrary candidate
\* lists (repeated books included) and every profile of the bound.
CompIds == {1, 2, 5, 9}

CompLists == SeqsUpTo(CompIds, MaxList)

InitComponents ==
  /\ catalog = Catalog
  /\ description = InitDescription
  /\ sentiment = [b \in BookIds |-> NoneNum]
  /\ strategy = "hybrid"
  /\ op = NoCall
  /\ result = <<>>
  /\ raised = FALSE
  /\ cands = <<>>
  /\ RestInit

HasHistory(profile) == profile.present /\ profile.reading_history # <<>>

TFIDFCall ==
  /\ op = NoCall
  /\ \E target \in Targets, candidates \in CompLists, profile \in Profiles,
        top_n \in TopNs, fault \in {"none", "tfidf"} :
       /\ result' = TFIDFRecommend(description, target, candidates, profile,
                                   top_n, fault)
       /\ raised' = FALSE
       /\ op' = Call("TFIDFRecommender.recommend", target, candidates,
                     profile, NoContext, top_n, "", fault)
       /\ cands' = candidates
       /\ UNCHANGED <<rest, catalog, description, sentiment, strategy>>

CFCall ==
  /\ op = NoCall
  /\ \E candidates \in CompLists, profile \in Profiles, top_n \in TopNs :
      \E fault \in {"none"} \cup (IF HasHistory(profile) THEN {"cf"}
                                 ELSE {"popularity"}) :
       /\ result' = IF CFRaises(profile, fault) THEN <<>>
                    ELSE CFRecommend(candidates, profile, top_n, fault)
       /\ raised' = CFRaises(profile, fault)
       /\ op' = Call("CollaborativeFilteringRecommender.recommend",
                     NoTextBook, candidates, profile, NoContext, top_n, "",
                     fault)
       /\ cands' = candidates
       /\ UNCHANGED <<rest, catalog, description, sentiment, strategy>>

MLCall ==
  /\ op = NoCall
  /\ \E target \in Targets, candidates \in CompLists, profile \in Profiles,
        top_n \in TopNs :
      \E fault \in {"none", "tfidf", "hybrid"}
                     \cup (IF HasHistory(profile) THEN {"cf"}
                           ELSE {"popularity"}) :
       /\ result' = MLRecommend(description, target, candidates, profile,
                                top_n, fault)
       /\ raised' = FALSE
       /\ op' = Call("MLRecommender.recommend", target, candidates, profile,
                     NoContext, top_n, "", fault)
       /\ cands' = candidates
       /\ UNCHANGED <<rest, catalog, description, sentiment, strategy>>

NextComponents == TFIDFCall \/ CFCall \/ MLCall \/ Return

\* The Text Similarity Scorer on its own, over books that come with or
\* without a long description.
LongText == [i \in 1..10 |-> "saga"]

DescriptionHeaps ==
  {InitDescription, [InitDescription EXCEPT ![2] = LongText]}

InitTFIDF ==
  /\ catalog = Catalog
  /\ description \in DescriptionHeaps
  /\ sentiment = [b \in BookIds |-> NoneNum]
  /\ strategy = "tfidf"
  /\ op = NoCall
  /\ result = <<>>
  /\ raised = FALSE
  /\ cands = <<>>
  /\ RestInit

NextTFIDF == TFIDFCall \/ Return

SpecTFIDF == InitTFIDF /\ [][NextTFIDF]_vars

\* ------------------------------------------------------------ concurrent enrichment
\* Two get_recommendations calls run at once, each in its enrichment loop
\* (_enrich_with_sentiment), over lists that may hold the same Book
\* objects.  A frame holds the list, the loop position, the place in the
\* loop body (the test of line 248 or the store of line 249), the value
\* analyze returned and the books the call has stored into.
Tids == {1, 2}

EnrichIds == {3, 4}
EnrichLists == DistinctSeqs(EnrichIds, Cardinality(EnrichIds))

EnrichFrame(books) ==
  [books |-> books, i |-> 1, pc |-> "check", value |-> NoneNum,
   wrote |-> {}]

\* the Books carry any of the descriptions, and the first of them a
\* sentiment_score that an earlier call may have stored
InitEnrich ==
  /\ catalog = Catalog
  /\ description \in
       {[InitDescription EXCEPT ![3] = t, ![4] = u] :
          t \in DescTexts \cup {NoneSeq},
          u \in {NoneSeq, <<"a", "delightful", "story">>}}
  /\ sentiment \in
       {[b \in BookIds |-> IF b = 3 THEN v ELSE NoneNum] :
          v \in {NoneNum, 0, One, 0 - One}}
  /\ strategy = "hybrid"
  /\ op = NoCall
  /\ result = <<>>
  /\ raised = FALSE
  /\ cands = <<>>
  /\ user_item_matrix = EmptyMatrix
  /\ vectorizer = NotFitted
  /\ threads \in {<<EnrichFrame(x), EnrichFrame(y)>> :
                    x \in EnrichLists, y \in EnrichLists}
  /\ user_profile = NoProfile
  /\ strategy_attr = Absent
  /\ reference = [NoReference EXCEPT !.present = TRUE,
                                     !.description = description,
                                     !.sentiment = sentiment]

\* `if book.description and not book.sentiment_score:` and, when it holds,
\* the call of analyze
EnrichCheck(t) ==
  /\ threads[t].pc = "check"
  /\ threads[t].i <= Len(threads[t].books)
  /\ LET b == threads[t].books[threads[t].i]
     IN  IF TruthySeq(description[b]) /\ ~TruthyNum(sentiment[b])
         THEN threads' = [threads EXCEPT ![t].pc = "write",
                                         ![t].value = analyze(description[b])]
         ELSE threads' = [threads EXCEPT ![t].i = @ + 1]
  /\ UNCHANGED <<catalog, description, sentiment, strategy, op, result,
                 raised, cands, user_item_matrix, vectorizer, user_profile,
                 reference,
                 strategy_attr>>

\* a store that adds the value to the stored one
EnrichWrite_addsToStored(t) ==
  /\ threads[t].pc = "write"
  /\ LET b == threads[t].books[threads[t].i]
     IN  /\ sentiment' =
              [sentiment EXCEPT
                 ![b] = (IF @ = NoneNum THEN 0 ELSE @) + threads[t].value]
         /\ threads' = [threads EXCEPT ![t].pc = "check",
                                        ![t].i = @ + 1,
                                        ![t].value = NoneNum,
                                        ![t].wrote = @ \cup {b}]
  /\ UNCHANGED <<catalog, description, strategy, op, result, raised, cands,
                 user_item_matrix, vectorizer, user_profile, reference,
                 strategy_attr>>

\* `book.sentiment_score = ...`
EnrichWrite(t) ==
  /\ threads[t].pc = "write"
  /\ LET b == threads[t].books[threads[t].i]
     IN  /\ sentiment' = [sentiment EXCEPT ![b] = threads[t].value]
         /\ threads' = [threads EXCEPT ![t].pc = "check",
                                        ![t].i = @ + 1,
                                        ![t].value = NoneNum,
                                        ![t].wrote = @ \cup {b}]
  /\ UNCHANGED <<catalog, description, strategy, op, result, raised, cands,
                 user_item_matrix, vectorizer, user_profile, reference,
                 strategy_attr>>

\* the loop is over; what follows in the call stores into no Book
EnrichDone(t) ==
  /\ threads[t].pc = "check"
  /\ threads[t].i > Len(threads[t].books)
  /\ threads' = [threads EXCEPT ![t].pc = "done"]
  /\ UNCHANGED <<catalog, description, sentiment, strategy, op, result,
                 raised, cands, user_item_matrix, vectorizer, user_profile,
                 reference,
                 strategy_attr>>

NextEnrich ==
  \E t \in Tids : EnrichCheck(t) \/ EnrichWrite(t) \/ EnrichDone(t)

SpecEnrich == InitEnrich /\ [][NextEnrich]_vars

\* ------------------------------------------------------------ shared vectorizer
\* Two recommend calls run at once on one TFIDFRecommender, whose
\* self.vectorizer they both fit.  fit_transform first fits (it stores the
\* vocabulary and the idf vector of the call's texts in the vectorizer) and
\* then transforms the call's count matrix with the idf vector the
\* vectorizer holds by then.
\* the texts of a call: the target's terms and each candidate's
TermDocs(d, target, candidates) ==
  <<Terms(d, target)>>
    \o [i \in 1..Len(candidates) |-> Terms(d, candidates[i])]

\* the features of ngram_range=(1, 2): the distinct words and the distinct
\* pairs of adjacent words of the texts
NFeatures(docs) ==
  Cardinality(UNION {Range(docs[k]) : k \in 1..Len(docs)})
    + Cardinality(UNION {{<<docs[k][i], docs[k][i + 1]>> :
                            i \in 1..(Len(docs[k]) - 1)} :
                         k \in 1..Len(docs)})

VectorizerLists == SeqsUpTo({1, 2, 3}, MaxList)

VectorizerFrame(target, candidates) ==
  [target |-> target, candidates |-> candidates, pc |-> "fit",
   result |-> <<>>]

InitVectorizer ==
  /\ catalog = Catalog
  /\ description = InitDescription
  /\ sentiment = [b \in BookIds |-> NoneNum]
  /\ strategy = "tfidf"
  /\ op = NoCall
  /\ result = <<>>
  /\ raised = FALSE
  /\ cands = <<>>
  /\ user_item_matrix = EmptyMatrix
  /\ vectorizer = NotFitted
  /\ threads \in {<<VectorizerFrame(1, x), VectorizerFrame(y, z)>> :
                    x \in VectorizerLists, y \in Targets,
                    z \in VectorizerLists}
  /\ user_profile = NoProfile
  /\ strategy_attr = Absent
  /\ reference = NoReference

\* the fit: texts without any word raise before anything is stored, and
\* the handler of recommend returns []
VectorizerFit(t) ==
  /\ threads[t].pc = "fit"
  /\ LET docs == TermDocs(description, threads[t].target,
                          threads[t].candidates)
     IN  IF NFeatures(docs) = 0
         THEN /\ threads' = [threads EXCEPT ![t].pc = "done"]
              /\ UNCHANGED vectorizer
         ELSE /\ vectorizer' = [fitted |-> TRUE, docs |-> docs]
              /\ threads' = [threads EXCEPT ![t].pc = "transform"]
  /\ UNCHANGED <<catalog, description, sentiment, strategy, op, result,
                 raised, cands, user_item_matrix, user_profile, reference,
                 strategy_attr>>

\* the transform and the rest of recommend.  An idf vector of another
\* width than the call's matrix raises ValueError, which the handler turns
\* into [].  The similarities of this model carry no idf weights, so here
\* an idf vector of the same width leaves the call's result as it is.
VectorizerTransform(t) ==
  /\ threads[t].pc = "transform"
  /\ LET docs == TermDocs(description, threads[t].target,
                          threads[t].candidates)
     IN  threads' =
           [threads EXCEPT
              ![t].pc = "done",
              ![t].result =
                 IF NFeatures(vectorizer.docs) # NFeatures(docs) THEN <<>>
                 ELSE TFIDFRecommend(description, threads[t].target,
                                     threads[t].candidates, NoProfile,
                                     MaxTopN, "none")]
  /\ UNCHANGED <<catalog, description, sentiment, strategy, op, result,
                 raised, cands, user_item_matrix, vectorizer, user_profile,
                 reference,
                 strategy_attr>>

NextVectorizer ==
  \E t \in Tids : VectorizerFit(t) \/ VectorizerTransform(t)

SpecVectorizer == InitVectorizer /\ [][NextVectorizer]_vars

\* ------------------------------------------------------------ engine state
\* One engine serves get_recommendations calls of users with different
\* histories; its preference matcher keeps its user_item_matrix from call
\* to call.  A call made while the matrix is still empty can be kept as
\* the reference that later calls with the same arguments are compared to.
\* CollaborativeFilteringRecommender._build_user_item_matrix
_build_user_item_matrix(matrix, history) ==
  [k \in MatrixKeys |->
     LET at == {i \in 1..Len(history) : history[i].book_id = k}
         last == CHOOSE i \in at : \A j \in at : j <= i
     IN  IF at = {} THEN matrix[k]
         ELSE IF TruthyNum(history[last].rating) THEN history[last].rating
              ELSE 30]

StateProfiles ==
  {NoProfile,
   ProfileOf(<<Entry("W1", "Dune", <<"Herbert">>, 50, <<"fantasy">>)>>),
   ProfileOf(<<Entry("W1", "Dune", <<"Herbert">>, 40, <<"fantasy">>)>>),
   ProfileOf(<<Entry("E3", "Emma", <<"Austen">>, 40, <<"Romance", "humor">>)>>)}

StateLists == {<<1, 2>>, <<2, 3>>, <<1, 2, 3, 5>>}

InitState ==
  /\ catalog = Catalog
  /\ description = InitDescription
  /\ sentiment = [b \in BookIds |-> NoneNum]
  /\ strategy \in Strategies
  /\ op = NoCall
  /\ result = <<>>
  /\ raised = FALSE
  /\ cands = <<>>
  /\ RestInit

\* get_recommendations with the matrix of the preference matcher, which
\* recommend fills before it scores when the profile has history
EngineCall ==
  /\ op = NoCall
  /\ \E candidates \in StateLists, profile \in StateProfiles,
        top_n \in TopNs, keep \in BOOLEAN :
       LET call == Call("get_recommendations", 1, candidates, profile,
                        NoContext, top_n, "", "none")
           recs == get_recommendations(strategy, description, 1, candidates,
                                       profile, NoContext, top_n, "none")
       IN  /\ keep => (~reference.present /\ user_item_matrix = EmptyMatrix)
           /\ sentiment' =
                _enrich_with_sentiment(description, sentiment, candidates)
           /\ user_item_matrix' =
                IF strategy # "tfidf" /\ HasHistory(profile)
                THEN _build_user_item_matrix(user_item_matrix,
                                             profile.reading_history)
                ELSE user_item_matrix
           /\ result' = recs
           /\ raised' = FALSE
           /\ op' = call
           /\ cands' = candidates
           /\ reference' =
                IF keep
                THEN [present |-> TRUE, call |-> call,
                      description |-> description, sentiment |-> sentiment,
                      matrix |-> user_item_matrix, result |-> recs]
                ELSE reference
           /\ UNCHANGED <<catalog, description, strategy, vectorizer,
                          threads, user_profile, strategy_attr>>

NextState == EngineCall \/ Return

SpecState == InitState /\ [][NextState]_vars

\* ------------------------------------------------------------ profile
\* One UserProfile that history entries are added to.
ManyNames ==
  <<"n01", "n02", "n03", "n04", "n05", "n06", "n07", "n08", "n09", "n10",
    "n11">>

ProfileEntries ==
  { Entry("P1", "Pair", <<"Ann", "Bob">>, 40, <<"epic", "saga">>),
    Entry("P3", "Solo", <<"Cy">>, 50, <<"saga">>),
    Entry("P4", "Poor", <<"Cy">>, 30, <<"grim">>),
    Entry("P5", "Unrated", <<"Dee">>, NoneNum, <<"grim">>),
    Entry("P6", "Anthology", ManyNames, 50, ManyNames) }

\* UserProfile.add_to_history: append, then _update_preferences
add_to_history(profile, history_entry) ==
  ProfileOf(Append(profile.reading_history, history_entry))

InitProfile ==
  /\ catalog = Catalog
  /\ description = InitDescription
  /\ sentiment = [b \in BookIds |-> NoneNum]
  /\ strategy = "hybrid"
  /\ op = NoCall
  /\ result = <<>>
  /\ raised = FALSE
  /\ cands = <<>>
  /\ user_item_matrix = EmptyMatrix
  /\ vectorizer = NotFitted
  /\ threads = NoThreads
  /\ user_profile = ProfileOf(<<>>)
  /\ strategy_attr = Absent
  /\ reference = NoReference

AddToHistory ==
  /\ Len(user_profile.reading_history) < MaxProfile
  /\ \E history_entry \in ProfileEntries :
       user_profile' = add_to_history(user_profile, history_entry)
  /\ UNCHANGED <<catalog, description, sentiment, strategy, op, result,
                 raised, cands, user_item_matrix, vectorizer, threads,
                 reference,
                 strategy_attr>>

NextProfile == AddToHistory

SpecProfile == InitProfile /\ [][NextProfile]_vars

SpecComponents == InitComponents /\ [][NextComponents]_vars

\* ------------------------------------------------------------ diversity
\* _ensure_diversity called on its own.  Its input is what the engine hands
\* it: a list sorted by score, here of distinct books with distinct scores.
\* The lists handed to _ensure_diversity: every ordering of up to MaxRecs
\* of the books of DivIds, and every sublist of three orderings of the
\* whole catalog (two of them start with a pair of books by one author on
\* the same subjects).
DivIds == BookIds \ {4, 10, 11}

DivOrders ==
  { <<10, 11, 2, 9, 1, 3, 4, 7, 8, 5, 6>>,
    <<7, 8, 10, 6, 5, 4, 3, 9, 2, 1, 11>>,
    <<1, 2, 3, 4, 5, 6, 7, 8, 9, 10, 11>> }

DivLists ==
  DistinctSeqs(DivIds, MaxRecs)
    \cup {SelectSeq(o, LAMBDA b : b \in S) :
            o \in DivOrders, S \in SUBSET BookIds}

DivTopNs == 1..MaxDivTopN

RankedRecs(books) ==
  [i \in 1..Len(books) |->
     Rec(books[i], (Len(books) + 1 - i) * (One \div 20), "Hybrid ML",
         <<"TF-IDF Content-Based">>)]

EnsureDiversity ==
  /\ op = NoCall
  /\ \E books \in DivLists, top_n \in DivTopNs :
       /\ result' = _ensure_diversity(RankedRecs(books), top_n)
       /\ raised' = FALSE
       /\ op' = Call("_ensure_diversity", NoTextBook, <<>>, NoProfile,
                     NoContext, top_n, "", "none")
       /\ cands' = RankedRecs(books)
       /\ UNCHANGED <<rest, catalog, description, sentiment, strategy>>

\* what a strategy returns for candidates that name a book more than once:
\* a recommendation of the same value for each mention
TiedRecs(books) ==
  [i \in 1..Len(books) |->
     Rec(books[i], One \div 2, "TF-IDF Content-Based",
         <<"TF-IDF Content-Based">>)]

TiedLists == SeqsUpTo({1, 2, 5}, MaxTies)

EnsureDiversityOfTied ==
  /\ op = NoCall
  /\ \E books \in TiedLists, top_n \in DivTopNs :
       /\ result' = _ensure_diversity(TiedRecs(books), top_n)
       /\ raised' = FALSE
       /\ op' = Call("_ensure_diversity", NoTextBook, <<>>, NoProfile,
                     NoContext, top_n, "", "none")
       /\ cands' = TiedRecs(books)
       /\ UNCHANGED <<rest, catalog, description, sentiment, strategy>>

NextDiversity == EnsureDiversity \/ EnsureDiversityOfTied \/ Return

SpecDiversity == InitComponents /\ [][NextDiversity]_vars

\* ------------------------------------------------------------ context adjuster
\* The Context Adjuster on its own, over ranked lists of books of every
\* page count the catalog has (250, 350, unknown, 450, 300, 400) and
\* context dicts with either key missing, recognised or unrecognised.
ContextIds == {1, 2, 3, 4, 5, 9}

ContextLists == DistinctSeqs(ContextIds, MaxContextRecs)

ContextDicts ==
  {Context(t, g) : t \in {Absent, "night", "morning"},
                   g \in {Absent, "quick_read", "deep_dive", "learn"}}

\* a ranked list with scores 0.95, 0.90, 0.85, ...
HighRecs(books) ==
  [i \in 1..Len(books) |->
     Rec(books[i], (20 - i) * (One \div 20), "Hybrid ML",
         <<"TF-IDF Content-Based">>)]

ApplyContextFilters ==
  /\ op = NoCall
  /\ \E books \in ContextLists, context \in ContextDicts :
       /\ result' = _apply_context_filters(HighRecs(books), context)
       /\ raised' = FALSE
       /\ op' = Call("_apply_context_filters", NoTextBook, <<>>, NoProfile,
                     context, 0, "", "none")
       /\ cands' = HighRecs(books)
       /\ UNCHANGED <<rest, catalog, description, sentiment, strategy>>

NextContext == ApplyContextFilters \/ Return

SpecContext == InitComponents /\ [][NextContext]_vars

\* ------------------------------------------------------------ preference score
\* _calculate_cf_score on its own, for every book of the catalog and
\* profiles with histories of several entries: rated 5.0, 4.5, 4.0, 3.0,
\* 0.0 and unrated, with one to three tags.  result holds the one value
\* returned.
ScoreEntries ==
  EntryUniverse
    \cup { Entry("W9", "Children", <<"Herbert">>, 45,
                 <<"fantasy", "desert", "epic">>),
           Entry("Z0", "Zero", <<"Austen">>, 0, <<"Romance">>) }

ScoreProfiles == {ProfileOf(h) : h \in SeqsUpTo(ScoreEntries, MaxScoreHist)}

CalculateCFScore ==
  /\ op = NoCall
  /\ \E book \in BookIds, profile \in ScoreProfiles :
       /\ result' = <<_calculate_cf_score(book, profile)>>
       /\ raised' = FALSE
       /\ op' = Call("_calculate_cf_score", book, <<>>, profile, NoContext,
                     0, "", "none")
       /\ cands' = <<>>
       /\ UNCHANGED <<rest, catalog, description, sentiment, strategy>>

NextCFScore == CalculateCFScore \/ Return

SpecCFScore == InitComponents /\ [][NextCFScore]_vars

\* ------------------------------------------------------------ popularity
\* A data provider constructs a Book from a document whose edition_count is
\* 0 or more and whose rating is absent or between 0.0 and 5.0; result holds
\* the Book.
EditionCounts == {10 * k : k \in 0..MaxEditionTens} \cup {1, 99, 101}

Ratings == {NoneNum} \cup 0..50

ProviderConstructs ==
  /\ op = NoCall
  /\ \E edition_count \in EditionCounts, rating \in Ratings :
       result' = <<ProviderBook([ProviderDocs[1] EXCEPT
                                  !.edition_count = edition_count,
                                  !.rating = rating])>>
  /\ raised' = FALSE
  /\ op' = Call("search_books", NoTextBook, <<>>, NoProfile, NoContext, 0,
                "", "none")
  /\ cands' = <<>>
  /\ UNCHANGED <<rest, catalog, description, sentiment, strategy>>

NextPopularity == ProviderConstructs \/ Return

SpecPopularity == InitComponents /\ [][NextPopularity]_vars

\* ------------------------------------------------------------ sentiment analyzer
\* The analyzer on its own: analyze over texts of up to MaxWords words, in
\* lower and in upper case, and over None; get_sentiment_label over the
\* scores around its two thresholds.  cands holds the argument, result the
\* value returned.
TextWords == {"good", "Great", "dull", "DULL", "story"}

SentimentTexts == {NoneSeq} \cup SeqsUpTo(TextWords, MaxWords)

LabelScores ==
  {0 - One, 0 - Mul(One, 3, 10) - 1, 0 - Mul(One, 3, 10), 0,
   Mul(One, 3, 10), Mul(One, 3, 10) + 1, One}
    \cup {analyze(t) : t \in SeqsUpTo(TextWords, 2)}

Analyze ==
  /\ op = NoCall
  /\ \E text \in SentimentTexts :
       /\ result' = <<analyze(text)>>
       /\ cands' = text
  /\ raised' = FALSE
  /\ op' = Call("analyze", NoTextBook, <<>>, NoProfile, NoContext, 0, "",
                "none")
  /\ UNCHANGED <<rest, catalog, description, sentiment, strategy>>

GetSentimentLabel ==
  /\ op = NoCall
  /\ \E score \in LabelScores :
       /\ result' = <<get_sentiment_label(score)>>
       /\ cands' = <<score>>
  /\ raised' = FALSE
  /\ op' = Call("get_sentiment_label", NoTextBook, <<>>, NoProfile,
                NoContext, 0, "", "none")
  /\ UNCHANGED <<rest, catalog, description, sentiment, strategy>>

NextSentiment == Analyze \/ GetSentimentLabel \/ Return

SpecSentiment == InitComponents /\ [][NextSentiment]_vars

\* ------------------------------------------------------------ strategy selection
\* The statements that construct a recommender for a strategy, assign
\* another strategy to it, and call it.  strategy is the recommender the
\* engine holds, strategy_attr what reading `.strategy` of the object gives.
\* RecommendationEngine.__init__: the recommender built for a strategy name
RecommenderFor(name) == IF name \in Strategies THEN name ELSE "hybrid"

\* MLRecommender(strategy=RecommendationStrategy.X): RecommendationStrategy
\* is the abstract base class of the recommenders and has no member X, and
\* MLRecommender.__init__ takes no argument: the statement raises and
\* constructs nothing
ConstructMLRecommender ==
  /\ op = NoCall
  /\ \E name \in Strategies :
       op' = Call("MLRecommender", NoTextBook, <<>>, NoProfile, NoContext,
                  0, name, "none")
  /\ raised' = TRUE
  /\ result' = <<>>
  /\ cands' = <<>>
  /\ UNCHANGED <<rest, catalog, description, sentiment, strategy>>

\* RecommendationEngine(strategy=name): a new engine, which keeps the
\* recommender built for the name and not the name
ConstructEngine ==
  /\ op = NoCall
  /\ \E name \in Strategies \cup {"popular"} :
       /\ strategy' = RecommenderFor(name)
       /\ op' = Call("RecommendationEngine", NoTextBook, <<>>, NoProfile,
                     NoContext, 0, name, "none")
  /\ strategy_attr' = Absent
  /\ raised' = FALSE
  /\ result' = <<>>
  /\ cands' = <<>>
  /\ UNCHANGED <<catalog, description, sentiment, user_item_matrix,
                 vectorizer, threads, user_profile, reference>>

\* engine.strategy = name: Python sets the instance attribute; the
\* recommender the engine holds stays
AssignStrategy ==
  /\ op = NoCall
  /\ \E name \in Strategies :
       /\ strategy_attr' = name
       /\ op' = Call("strategy=", NoTextBook, <<>>, NoProfile, NoContext, 0,
                     name, "none")
  /\ raised' = FALSE
  /\ result' = <<>>
  /\ cands' = <<>>
  /\ UNCHANGED <<catalog, description, sentiment, strategy,
                 user_item_matrix, vectorizer, threads, user_profile,
                 reference>>

StrategyLists == {<<1, 2>>, <<2, 3>>, <<3, 5>>}

\* get_recommendations on the engine as it is
StrategyCall ==
  /\ op = NoCall
  /\ \E candidates \in StrategyLists, profile \in EngineProfiles,
        top_n \in TopNs :
       /\ sentiment' =
            _enrich_with_sentiment(description, sentiment, candidates)
       /\ result' = get_recommendations(strategy, description, 1, candidates,
                                        profile, NoContext, top_n, "none")
       /\ op' = Call("get_recommendations", 1, candidates, profile,
                     NoContext, top_n, "", "none")
       /\ cands' = candidates
  /\ raised' = FALSE
  /\ UNCHANGED <<rest, catalog, description, strategy>>

NextStrategy ==
  \/ ConstructMLRecommender
  \/ ConstructEngine
  \/ AssignStrategy
  \/ StrategyCall
  \/ Return

SpecStrategy == Init /\ [][NextStrategy]_vars

\* ------------------------------------------------------------ properties
PublicOps ==
  {"get_recommendations", "get_trending_recommendations",
   "get_mood_based_recommendations"}

NonIncreasing(recs) ==
  \A i \in 1..(Len(recs) - 1) : recs[i].score >= recs[i + 1].score

Emits(recs, b) == \E i \in 1..Len(recs) : recs[i].book = b

\* the score the first recommendation for book b carries in recs, 0 if none
ScoreIn(recs, b) ==
  IF Emits(recs, b)
  THEN recs[CHOOSE i \in 1..Len(recs) :
              /\ recs[i].book = b
              /\ \A j \in 1..(i - 1) : recs[j].book # b].score
  ELSE 0

\* C1: every recommendation a public operation of the engine returns has a
\* score of at most 1.0 (the catalog's ratings lie in [0,5] and every
\* sentiment_score in [-1,1]).
C1_ScoreClamp ==
  op.name \in PublicOps => \A i \in 1..Len(result) : result[i].score <= One

\* C2: the list get_recommendations returns is non-increasing in score,
\* also when the fill pass of the Diversity Enforcer added items.
C2_ScoreOrder ==
  op.name = "get_recommendations" => NonIncreasing(result)

\* C3: once a Book's sentiment_score has been set (0.0 included), no later
\* step writes a different value into it, whatever happened to the
\* description in between.
C3_SentimentWrittenOnce ==
  [][\A b \in BookIds :
       sentiment[b] # NoneNum => sentiment'[b] = sentiment[b]]_vars

\* C4 (as stated): when a strategy fails in its scoring, the hybrid
\* recommender does not raise and returns exactly what the Text Similarity
\* Scorer alone returns for the same arguments.
C4_FallsBackToTextSimilarity ==
  (op.name = "MLRecommender.recommend" /\ op.fault \in {"tfidf", "cf"})
    => /\ ~raised
       /\ result = TFIDFRecommend(description, op.target, op.candidates,
                                  op.profile, op.top_n, op.fault)

\* what the combiner makes of the two strategies' lists
Fused(tf, cf, top_n) ==
  Take(SortDesc(Combine(Weighted(tf, 6, 10) \o Weighted(cf, 4, 10))), top_n)

\* C4 (amended): the hybrid recommender never raises.  A strategy that fails
\* in its own scoring absorbs the failure itself: a failed Text Similarity
\* Scorer contributes nothing and the result is fused from the Preference
\* Matcher's list alone; a failed Preference Matcher is replaced by its
\* popularity ranking, which is fused with the Text Similarity list.  Only
\* an exception that leaves a strategy, or one in the combiner's own code,
\* yields the Text Similarity Scorer's list alone.
C4_StrategyFailure ==
  op.name = "MLRecommender.recommend" =>
    LET tf == TFIDFRecommend(description, op.target, op.candidates,
                             op.profile, 2 * op.top_n, "none")
        cf == CFRecommend(op.candidates, op.profile, 2 * op.top_n, "none")
        popular ==
          _popularity_based_recommendations(op.candidates, 2 * op.top_n)
    IN  /\ ~raised
        /\ op.fault = "tfidf" => result = Fused(<<>>, cf, op.top_n)
        /\ op.fault = "cf" => result = Fused(tf, popular, op.top_n)
        /\ op.fault \in {"hybrid", "popularity"} =>
             result = TFIDFRecommend(description, op.target, op.candidates,
                                     op.profile, op.top_n, "none")

\* C4 witness: the Preference Matcher failed and the popularity ranking
\* contributed to the result, which is not the Text Similarity list
C4_Witness ==
  /\ op.name = "MLRecommender.recommend"
  /\ op.fault = "cf"
  /\ \E i \in 1..Len(result) : "Popularity-Based" \in Range(result[i].by)
  /\ \E i \in 1..Len(result) : "TF-IDF Content-Based" \in Range(result[i].by)
  /\ result # TFIDFRecommend(description, op.target, op.candidates,
                             op.profile, op.top_n, "none")

\* C5: no public operation lets an exception escape to its caller.
C5_NoExceptionEscapes ==
  op.name \in PublicOps => ~raised

\* C6 (as stated): a target without text content gets the empty list.
C6_NoTextGivesEmpty ==
  (op.name = "get_recommendations" /\ op.target = NoTextBook)
    => result = <<>>

\* C6 (amended): for a target without text content get_recommendations
\* returns no recommendation the Text Similarity Scorer contributed to; it
\* returns the empty list when the engine uses the tfidf strategy alone, or
\* when the profile has no history and no candidate has a nonzero
\* popularity_score.
C6_NoTextGivesNoSimilarity ==
  (op.name = "get_recommendations" /\ op.target = NoTextBook)
    => /\ \A i \in 1..Len(result) :
            "TF-IDF Content-Based" \notin Range(result[i].by)
       /\ strategy = "tfidf" => result = <<>>
       /\ ( /\ ~HasHistory(op.profile)
            /\ \A i \in 1..Len(op.candidates) :
                  ~TruthyNum(catalog[op.candidates[i]].popularity_score) )
            => result = <<>>

\* C6 witness: a target without text, and a list that is not empty
C6_Witness ==
  /\ op.name = "get_recommendations"
  /\ op.target = NoTextBook
  /\ op.fault = "none"
  /\ Len(result) >= 2

\* C7: get_recommendations on an empty candidate list returns the empty
\* list and does not raise.
C7_EmptyCandidates ==
  (op.name = "get_recommendations" /\ op.candidates = <<>>)
    => (result = <<>> /\ ~raised)

\* C7 witness: an empty candidate list with a target that has text, a
\* profile with history and a context
C7_Witness ==
  /\ op.name = "get_recommendations"
  /\ op.candidates = <<>>
  /\ op.target # NoTextBook
  /\ HasHistory(op.profile)
  /\ op.context.present
  /\ op.fault = "none"
  /\ result = <<>>

\* C8: each score in the hybrid output is min(1.0, b * (0.6 t + 0.4 p) / 2)
\* with t and p the scores the two strategies gave the book (0 if not
\* emitted) and b = 1.2 exactly when both strategies emitted it.
C8_HybridScore ==
  (op.name = "MLRecommender.recommend" /\ op.fault = "none") =>
    LET tf == TFIDFRecommend(description, op.target, op.candidates,
                             op.profile, 2 * op.top_n, "none")
        cf == CFRecommend(op.candidates, op.profile, 2 * op.top_n, "none")
    IN  \A i \in 1..Len(result) :
          LET b == result[i].book
              base == (Mul(ScoreIn(tf, b), 6, 10)
                       + Mul(ScoreIn(cf, b), 4, 10)) \div 2
          IN  result[i].score =
                Min(One, IF Emits(tf, b) /\ Emits(cf, b)
                         THEN Mul(base, 12, 10) ELSE base)

\* C9 (as stated): without history the preference matcher returns the first
\* top_n of ALL candidates in descending popularity.
C9_RanksAllCandidates ==
  ( /\ op.name = "CollaborativeFilteringRecommender.recommend"
    /\ ~HasHistory(op.profile) /\ ~raised )
    => [i \in 1..Len(result) |-> result[i].book]
         = Take(SortByPopularity(op.candidates), op.top_n)

\* C9 (amended): without history the preference matcher ranks the
\* candidates whose popularity_score is set and not zero: its result holds
\* min(top_n, number of such candidates) of them, in non-increasing score,
\* none scoring below one that was left out, each labelled
\* "Popularity-Based" and scored with its popularity_score.
C9_RanksPopularCandidates ==
  ( /\ op.name = "CollaborativeFilteringRecommender.recommend"
    /\ ~HasHistory(op.profile) /\ ~raised )
    => LET popular == SelectSeq(op.candidates,
                        LAMBDA b : TruthyNum(catalog[b].popularity_score))
           books == [i \in 1..Len(result) |-> result[i].book]
       IN  /\ Len(result) = Min(op.top_n, Len(popular))
           /\ NonIncreasing(result)
           /\ \A i \in 1..Len(result) :
                /\ result[i].algorithm = "Popularity-Based"
                /\ result[i].score = catalog[result[i].book].popularity_score
                /\ Count(result[i].book, books)
                     <= Count(result[i].book, popular)
           /\ \A b \in Range(popular) :
                Count(b, books) < Count(b, popular)
                  => \A i \in 1..Len(result) :
                        result[i].score >= catalog[b].popularity_score

\* C9 witness: candidates with and without a popularity score, of which
\* only the former are returned, fewer than top_n
C9_Witness ==
  /\ op.name = "CollaborativeFilteringRecommender.recommend"
  /\ ~HasHistory(op.profile)
  /\ ~raised
  /\ Len(result) >= 1
  /\ Len(result) < Min(op.top_n, Len(op.candidates))

Authors(r) == catalog[r.book].authors

SameAuthorAndSubjects(x, y) ==
  /\ Len(Authors(x)) = 1
  /\ Authors(x) = Authors(y)
  /\ Range(First3(x.book)) = Range(First3(y.book))

\* recs holds n recommendations no two of which share the single author
\* and the first-3-subjects set.  Sharing both is an equivalence among the
\* recommendations with one author, and a recommendation with no or
\* several authors shares them with nobody, so the largest such choice
\* takes one recommendation of each class.
DiversityClass(r) ==
  IF Len(Authors(r)) = 1
  THEN [author |-> Authors(r)[1], subjects |-> Range(First3(r.book)),
        book |-> 0]
  ELSE [author |-> "", subjects |-> {}, book |-> r.book]

HoldsDiverse(recs, n) ==
  Cardinality({DiversityClass(recs[i]) : i \in 1..Len(recs)}) >= n

DiversityCase ==
  /\ op.name = "_ensure_diversity"
  /\ op.top_n >= 2
  /\ HoldsDiverse(cands, 2 * op.top_n)

\* C10 (as stated): with top_n >= 2 and 2*top_n pairwise-diverse inputs, the
\* output holds no two items with the same single author and the same
\* first-3-subjects set unless the later one was admitted while fewer than
\* top_n // 2 items had been admitted; books without subjects included.
C10_NoRepeats ==
  DiversityCase =>
    \A i, j \in 1..Len(result) :
      (i < j /\ SameAuthorAndSubjects(result[i], result[j]))
        => j - 1 < op.top_n \div 2

\* C10 (amended): the same, for a later item that has at least one subject
\* and was admitted by the first pass (not by the fill pass).
C10_NoRepeatsWithSubjects ==
  DiversityCase =>
    LET admitted == Len(FirstPass(cands, op.top_n, 1, <<>>, {}, {}))
    IN  \A i, j \in 1..Len(result) :
          ( /\ i < j
            /\ j <= admitted
            /\ TruthySeq(catalog[result[j].book].subjects)
            /\ SameAuthorAndSubjects(result[i], result[j]) )
            => j - 1 < op.top_n \div 2

\* C10 witness: the input holds two books with the same single author and
\* the same subjects; the first was admitted and the second turned away
C10_Witness ==
  /\ DiversityCase
  /\ op.top_n \div 2 >= 2
  /\ \E i, j \in 1..Len(cands) :
       /\ i < j
       /\ TruthySeq(catalog[cands[j].book].subjects)
       /\ SameAuthorAndSubjects(cands[i], cands[j])
       /\ cands[i] \in Range(result)
       /\ cands[j] \notin Range(result)
  \* and another such pair was let in among the first top_n // 2
  /\ SameAuthorAndSubjects(result[1], result[2])

\* C11: no public operation changes what its caller handed it, other than
\* Book.sentiment_score: when the call is over the candidates list holds the
\* same books in the same order, for every time_window, and the other Book
\* fields (popularity_score included) are what the provider set.
C11_ArgumentsUnchanged ==
  op.name \in PublicOps => (cands = op.candidates /\ catalog = Catalog)

TrendingCase == op.name = "get_trending_recommendations" /\ ~raised

\* the result is the top_n of the eligible candidates by popularity: only
\* eligible candidates, as many as top_n allows, none less popular than an
\* eligible candidate that was left out
TopEligible(eligible) ==
  LET books == [i \in 1..Len(result) |-> result[i].book]
  IN  /\ Range(books) \subseteq Range(eligible)
      /\ Len(books) = Min(op.top_n, Len(eligible))
      /\ \A b \in Range(eligible) \ Range(books) :
           \A i \in 1..Len(books) :
              PopularityOrZero(books[i]) >= PopularityOrZero(b)

\* C12 (as stated): the books eligible are exactly the candidates with
\* year < 2000 for "classic", year >= current_year - 2 for "recent",
\* year = current_year for "this_year", all candidates for any other
\* value; the result is the top_n eligible books by popularity.
C12_TrendingWindow ==
  TrendingCase =>
    TopEligible(SelectSeq(op.candidates,
      LAMBDA b :
        CASE op.arg = "classic" -> catalog[b].year < 2000
          [] op.arg = "recent" -> catalog[b].year >= CurrentYear - 2
          [] op.arg = "this_year" -> catalog[b].year = CurrentYear
          [] OTHER -> TRUE))

\* C12 (amended): the same, with "classic" taking exactly the candidates
\* whose year is known (not 0) and < 2000.
C12_TrendingWindowKnownYear ==
  TrendingCase =>
    TopEligible(SelectSeq(op.candidates,
      LAMBDA b :
        CASE op.arg = "classic" -> catalog[b].year # 0 /\ catalog[b].year < 2000
          [] op.arg = "recent" -> catalog[b].year >= CurrentYear - 2
          [] op.arg = "this_year" -> catalog[b].year = CurrentYear
          [] OTHER -> TRUE))

\* C12 witness: a "classic" call whose candidates hold a book of unknown
\* year, a book from before 2000 and a later one; only the second is
\* returned
C12_Witness ==
  /\ TrendingCase
  /\ op.arg = "classic"
  /\ \E b \in Range(op.candidates) : catalog[b].year = 0
  /\ \E b \in Range(op.candidates) : catalog[b].year >= 2000
  /\ Len(result) = 1
  /\ catalog[result[1].book].year \in 1..1999

\* C13: get_trending_recommendations returns at most top_n recommendations,
\* in descending popularity_score of their books, and their scores are
\* non-increasing along the list, whether the popularity_score of a
\* candidate is set, zero or unset.
C13_TrendingOrder ==
  TrendingCase =>
    /\ Len(result) <= op.top_n
    /\ \A i \in 1..(Len(result) - 1) :
         PopularityOrZero(result[i].book)
           >= PopularityOrZero(result[i + 1].book)
    /\ NonIncreasing(result)

MoodCase == op.name = "get_mood_based_recommendations" /\ ~raised

\* a target genre of the mood is a substring of a lower-cased subject of b
MatchesMood(b, mood) ==
  /\ TruthySeq(catalog[b].subjects)
  /\ \E g \in Range(MoodGenres(mood)), x \in Range(catalog[b].subjects) :
        Contains(Lower(x), g)

\* C14: get_mood_based_recommendations returns a candidate only if a target
\* genre of the mood is a substring of one of its lower-cased subjects (so
\* never one with no match, with no subjects, or under an unrecognised
\* mood), and returns the top_n of the matching candidates by score, in
\* descending score order.
C14_MoodMatch ==
  MoodCase =>
    LET books == [i \in 1..Len(result) |-> result[i].book]
        matching == {b \in Range(op.candidates) : MatchesMood(b, op.arg)}
    IN  /\ Range(books) \subseteq matching
        /\ Len(books) = Min(op.top_n, Cardinality(matching))
        /\ NonIncreasing(result)
        /\ \A i \in 1..Len(result) :
             result[i].score = MoodScore(sentiment, result[i].book, op.arg)
        /\ \A b \in matching \ Range(books) :
             \A i \in 1..Len(result) :
                result[i].score >= MoodScore(sentiment, b, op.arg)

\* C14 witness: a book returned for a genre that is a proper substring of
\* its subject, while a candidate with subjects but no match, and one
\* without subjects, were left out
C14_Witness ==
  /\ MoodCase
  /\ op.arg = "sad"
  /\ \E i \in 1..Len(result) :
       "Melodrama" \in Range(catalog[result[i].book].subjects)
  /\ \E b \in Range(op.candidates) :
       TruthySeq(catalog[b].subjects) /\ ~Emits(result, b)
  /\ \E b \in Range(op.candidates) : ~TruthySeq(catalog[b].subjects)

TFIDFCase == op.name = "TFIDFRecommender.recommend"

\* the raw cosine similarity of candidate b to the call's target
RawSimilarity(b) ==
  CosineSim(Terms(description, op.target), Terms(description, b))

\* C15: every recommendation TFIDFRecommender.recommend returns is for a
\* candidate whose raw cosine similarity to the target is strictly greater
\* than 0.1: the threshold is tested before the user boost, so a candidate
\* at or below it is never returned, even if the boost would lift it above.
C15_RelevanceThreshold ==
  TFIDFCase =>
    \A i \in 1..Len(result) : RawSimilarity(result[i].book) > Threshold

\* C15 witness: a candidate similar to the target, but not above the
\* threshold, that the user boost would lift above it, left out of a
\* result that is not empty
C15_Witness ==
  /\ TFIDFCase
  /\ op.profile.present
  /\ result # <<>>
  /\ \E b \in Range(op.candidates) :
       /\ RawSimilarity(b) > 0
       /\ RawSimilarity(b) <= Threshold
       /\ _apply_user_boost(RawSimilarity(b), b, op.profile) > Threshold
       /\ ~Emits(result, b)

EnrichOver == threads # NoThreads /\ \A t \in Tids : threads[t].pc = "done"

\* C16: when two get_recommendations calls have run their enrichment loops
\* concurrently over lists that share a Book (whose description did not
\* change), the Book's sentiment_score is what one call running alone from
\* the same start would have left, whatever the interleaving.
C16_EnrichmentIdempotent ==
  EnrichOver =>
    \A b \in Range(threads[1].books) \cap Range(threads[2].books) :
       /\ sentiment[b] =
            _enrich_with_sentiment(reference.description,
                                   reference.sentiment, threads[1].books)[b]
       /\ sentiment[b] =
            _enrich_with_sentiment(reference.description,
                                   reference.sentiment, threads[2].books)[b]

\* C16 witness: both calls passed the test for the same Book before either
\* stored, and both stored a nonzero score into it
C16_Witness ==
  /\ EnrichOver
  /\ \E b \in EnrichIds :
       /\ \A t \in Tids : b \in threads[t].wrote
       /\ sentiment[b] # 0
       /\ sentiment[b] # reference.sentiment[b]

\* C17: the TF-IDF vector space is private to each call: of two recommend
\* calls that run concurrently on one instance, each returns what it
\* returns when it runs alone, for every interleaving of their fit and
\* similarity steps.
C17_PrivateVectorSpace ==
  \A t \in DOMAIN threads :
     ("target" \in DOMAIN threads[t] /\ threads[t].pc = "done") =>
       threads[t].result =
         TFIDFRecommend(description, threads[t].target,
                        threads[t].candidates, NoProfile, MaxTopN, "none")

Places(h, field, x) ==
  {p \in (1..Len(h)) \X (1..11) :
     /\ h[p[1]].rating # NoneNum
     /\ h[p[1]].rating >= 40
     /\ p[2] <= Len(h[p[1]][field])
     /\ h[p[1]][field][p[2]] = x}

\* the place of the first occurrence, as one number
FirstPlace(h, field, x) ==
  LET at == {12 * p[1] + p[2] : p \in Places(h, field, x)}
  IN  CHOOSE n \in at : \A m \in at : n <= m

\* fav lists the names of the field in rank order, cut to ten; a name
\* ranks before another when it has more occurrences, or as many and a
\* first occurrence that comes earlier (a strict total order of the names,
\* so neighbours in rank order put the whole list in rank order)
IsTopTen(fav, h, field) ==
  LET all == UNION {Range(h[i][field]) : i \in 1..Len(h)}
      occ == [x \in all |-> Cardinality(Places(h, field, x))]
      names == {x \in all : occ[x] > 0}
      first == [x \in names |-> FirstPlace(h, field, x)]
      RanksBefore(x, y) ==
        occ[x] > occ[y] \/ (occ[x] = occ[y] /\ first[x] < first[y])
  IN  /\ Len(fav) = Min(10, Cardinality(names))
      /\ Range(fav) \subseteq names
      /\ \A i \in 1..Len(fav) - 1 : RanksBefore(fav[i], fav[i + 1])
      /\ \A x \in names \ Range(fav) : RanksBefore(fav[Len(fav)], x)

Favorites(field) ==
  IF field = "authors" THEN user_profile.favorite_authors
  ELSE user_profile.favorite_genres

\* the names of the field that no name outnumbers among the entries rated
\* 4.0 or more
MostFrequent(h, field) ==
  LET all == UNION {Range(h[i][field]) : i \in 1..Len(h)}
      counts == {Cardinality(Places(h, field, x)) : x \in all}
      most == CHOOSE n \in counts : \A m \in counts : m <= n
  IN  {x \in all : most > 0 /\ Cardinality(Places(h, field, x)) = most}

\* the entry added last is rated 5.0 and its names are the most frequent
LastIsMostFrequent(h, field) ==
  /\ h # <<>>
  /\ h[Len(h)].rating = 50
  /\ Range(h[Len(h)][field]) \subseteq MostFrequent(h, field)

\* C19: after every add_to_history call, favorite_authors and
\* favorite_genres are exactly the at most 10 authors and tags with the
\* most occurrences among the entries rated 4.0 or more, in decreasing
\* frequency, ties in order of first occurrence; other entries contribute
\* nothing, and an entry rated 5.0 added last whose names are then the most
\* frequent has them in the lists.
C19_FavoritesTopTen ==
  user_profile.present =>
    \A field \in {"authors", "tags"} :
      LET h == user_profile.reading_history
      IN  /\ IsTopTen(Favorites(field), h, field)
          /\ LastIsMostFrequent(h, field)
                => Range(h[Len(h)][field]) \subseteq Range(Favorites(field))

\* C19 amended: as C19, the last part for an entry whose names are the
\* most frequent while at most 10 names are that frequent.
C19_FavoritesTopTenCut ==
  user_profile.present =>
    \A field \in {"authors", "tags"} :
      LET h == user_profile.reading_history
      IN  /\ IsTopTen(Favorites(field), h, field)
          /\ ( /\ LastIsMostFrequent(h, field)
               /\ Cardinality(MostFrequent(h, field)) <= 10 )
                => Range(h[Len(h)][field]) \subseteq Range(Favorites(field))

\* C19 witness: the entry added last is rated 5.0 and its author, the most
\* frequent, heads the list; an entry rated below 4.0 with that author is
\* in the history, and more than ten names occur so that the cut acts
C19_Witness ==
  LET h == user_profile.reading_history
  IN  /\ user_profile.present
      /\ LastIsMostFrequent(h, "authors")
      /\ Cardinality(MostFrequent(h, "authors")) <= 10
      /\ user_profile.favorite_authors[1] = h[Len(h)].authors[1]
      /\ \E i \in 1..Len(h) :
            h[i].rating = 30 /\ h[i].authors = h[Len(h)].authors
      /\ Len(user_profile.favorite_authors) = 10
      /\ \E x \in Range(ManyNames) :
            /\ x \notin Range(user_profile.favorite_authors)
            /\ Places(h, "authors", x) # {}


\* recs takes its books from distinct places of candidates, and places
\* that grow along each run of equal scores
KeepsInputOrder(recs, candidates) ==
  \E place \in [1..Len(recs) -> 1..Len(candidates)] :
    /\ \A i \in 1..Len(recs) : candidates[place[i]] = recs[i].book
    /\ \A i, j \in 1..Len(recs) :
          i < j => /\ place[i] # place[j]
                   /\ recs[i].score = recs[j].score => place[i] < place[j]

\* the place where the strategies first emit book b
FirstSeen(emitted, b) ==
  CHOOSE i \in 1..Len(emitted) :
    /\ BookKey(emitted[i].book) = BookKey(b)
    /\ \A j \in 1..(i - 1) : BookKey(emitted[j].book) # BookKey(b)

KeepsFirstSeenOrder(recs, emitted) ==
  /\ \A i \in 1..Len(recs) :
        \E k \in 1..Len(emitted) : BookKey(emitted[k].book) = BookKey(recs[i].book)
  /\ \A i, j \in 1..Len(recs) :
        (i < j /\ recs[i].score = recs[j].score)
          => FirstSeen(emitted, recs[i].book) < FirstSeen(emitted, recs[j].book)

\* the combiner's own path: no exception reaches its handler
Combines == op.fault # "hybrid" /\ ~CFRaises(op.profile, op.fault)

\* what Text Similarity, then Preference Matcher emit for the call in op
EmittedForCall ==
  TFIDFRecommend(description, op.target, op.candidates, op.profile,
                 2 * op.top_n, op.fault)
    \o CFRecommend(op.candidates, op.profile, 2 * op.top_n, op.fault)

\* C20: what MLRecommender.recommend returns is sorted by combined score
\* descending, books of equal combined score in the order in which the
\* strategies (Text Similarity first, Preference Matcher second) first
\* emitted them; what TFIDFRecommender.recommend and
\* CollaborativeFilteringRecommender.recommend return is sorted by score
\* descending, equal scores in candidate input order.
C20_StableDescending ==
  /\ (op.name = "MLRecommender.recommend" /\ Combines)
       => /\ NonIncreasing(result)
          /\ KeepsFirstSeenOrder(result, EmittedForCall)
  /\ ( /\ op.name \in {"TFIDFRecommender.recommend",
                        "CollaborativeFilteringRecommender.recommend"}
       /\ ~raised )
       => /\ NonIncreasing(result)
          /\ KeepsInputOrder(result, op.candidates)

\* C20 witness: the combiner returns two different books of equal combined
\* score, the one the strategies emitted first before the other
C20_Witness ==
  /\ op.name = "MLRecommender.recommend"
  /\ Combines
  /\ \E i, j \in 1..Len(result) :
       /\ i < j
       /\ result[i].score = result[j].score
       /\ result[i].book # result[j].book
       /\ FirstSeen(EmittedForCall, result[i].book)
            < FirstSeen(EmittedForCall, result[j].book)

\* C21: _apply_context_filters applies its rules in sequence and sorts
\* again: with time_of_day "night" the score of every item with a known
\* page_count below 300 is multiplied by 1.1 and no other score changes;
\* with reading_goal "quick_read" exactly the items with unknown page_count
\* or page_count below 400 are kept, with "deep_dive" exactly those with a
\* known page_count above 300; other or missing keys drop nothing; the list
\* returned is sorted by the adjusted score, descending.
C21_ContextFilters ==
  op.name = "_apply_context_filters" =>
    LET pages(r) == catalog[r.book].page_count
        known(r) == pages(r) # NoneNum /\ pages(r) # 0
        Adjusted(r) ==
          IF op.context.time_of_day = "night" /\ known(r) /\ pages(r) < 300
          THEN [r EXCEPT !.score = Mul(r.score, 11, 10)]
          ELSE r
        Kept(r) ==
          /\ op.context.reading_goal = "quick_read"
               => (~known(r) \/ pages(r) < 400)
          /\ op.context.reading_goal = "deep_dive"
               => (known(r) /\ pages(r) > 300)
        expected == {Adjusted(cands[i]) :
                       i \in {k \in 1..Len(cands) : Kept(cands[k])}}
    IN  /\ Range(result) = expected
        /\ Len(result) = Cardinality(expected)
        /\ NonIncreasing(result)

\* C21 witness: at night with a quick read wanted, an item is dropped and
\* the multiplied score of a short book lifts it above an item that was
\* ranked before it
C21_Witness ==
  /\ op.name = "_apply_context_filters"
  /\ op.context.time_of_day = "night"
  /\ op.context.reading_goal = "quick_read"
  /\ Len(result) < Len(cands)
  /\ \E i, j \in 1..Len(cands) :
       /\ i < j
       /\ \E m, n \in 1..Len(result) :
            /\ m < n
            /\ result[m].book = cands[j].book
            /\ result[n].book = cands[i].book
            /\ result[m].score > cands[j].score

\* 0.5 if an author of book b is an author of the entry, plus
\* 0.3 * |subjects[:5] /\ tags| / max(|subjects[:5]|, |tags|), at most 1.0
EntrySimilarity(b, entry) ==
  LET book == catalog[b]
      first5 == IF book.subjects = NoneSeq THEN <<>>
                ELSE SubSeq(book.subjects, 1, Min(5, Len(book.subjects)))
      common == Cardinality(Range(first5) \cap Range(entry.tags))
      shared == Range(book.authors) \cap Range(entry.authors) # {}
      genres == IF common = 0 THEN 0
                ELSE (3 * One * common)
                       \div (10 * Max(Len(first5), Len(entry.tags)))
  IN  Min((IF shared THEN One \div 2 ELSE 0) + genres, One)

\* C22: for a profile with history, the Preference Matcher score of a
\* candidate is the sum of rating * similarity over the entries rated 4.0 or
\* more whose similarity to the candidate is above 0, divided by their number
\* and by 5; it is 0, with no arithmetic fault, when there is no such entry;
\* the similarity of an entry is as EntrySimilarity says; with ratings in
\* [0,5] the score lies in [0,1].
C22_PreferenceScore ==
  op.name = "_calculate_cf_score" =>
    LET h == op.profile.reading_history
        qualifies(i) ==
          /\ h[i].rating # NoneNum
          /\ h[i].rating >= 40
          /\ EntrySimilarity(op.target, h[i]) > 0
        n == Cardinality({i \in 1..Len(h) : qualifies(i)})
        total == SumSeq([i \in 1..Len(h) |->
                          IF qualifies(i)
                          THEN h[i].rating * EntrySimilarity(op.target, h[i])
                          ELSE 0])
    IN  /\ ~raised
        /\ result[1] = IF n = 0 THEN 0 ELSE total \div (10 * n * 5)
        /\ result[1] >= 0
        /\ result[1] <= One

\* C22 witness: two entries qualify with different ratings and different
\* similarities, and the score is above 0
C22_Witness ==
  /\ op.name = "_calculate_cf_score"
  /\ result[1] > 0
  /\ LET h == op.profile.reading_history
     IN  \E i, j \in 1..Len(h) :
           /\ h[i].rating = 50
           /\ h[j].rating = 45
           /\ EntrySimilarity(op.target, h[i]) > 0
           /\ EntrySimilarity(op.target, h[j]) > EntrySimilarity(op.target, h[i])

\* an author of book b is a favourite author of the call's profile
FavoriteAuthor(b) ==
  Range(catalog[b].authors) \cap Range(op.profile.favorite_authors) # {}

\* a subject of book b is a favourite genre of the call's profile
FavoriteGenre(b) ==
  /\ catalog[b].subjects # NoneSeq
  /\ Range(catalog[b].subjects) \cap Range(op.profile.favorite_genres) # {}

\* C23: when a user profile is supplied, the score of each Text Similarity
\* recommendation is min(1.0, s * a * g): s the raw cosine similarity, a 1.3
\* if an author of the candidate is in favorite_authors and 1 otherwise, g
\* 1.2 if a subject of the candidate is in favorite_genres and 1 otherwise;
\* without a profile the score is s.
C23_UserBoost ==
  TFIDFCase =>
    \A i \in 1..Len(result) :
      LET b == result[i].book
          s == RawSimilarity(b)
          a == IF FavoriteAuthor(b) THEN 13 ELSE 10
          g == IF FavoriteGenre(b) THEN 12 ELSE 10
      IN  result[i].score =
            IF op.profile.present THEN Min(One, (s * a * g) \div 100) ELSE s

\* C23 witness: one recommendation carries both boosts, unclamped, and
\* another of the same result is clamped to 1.0
C23_Witness ==
  /\ TFIDFCase
  /\ op.profile.present
  /\ \E i, j \in 1..Len(result) :
       /\ FavoriteAuthor(result[i].book)
       /\ FavoriteGenre(result[i].book)
       /\ result[i].score = (RawSimilarity(result[i].book) * 156) \div 100
       /\ result[i].score < One
       /\ result[j].score = One
       /\ (RawSimilarity(result[j].book) * 156) \div 100 > One

\* min(edition_count/100, 1) * 0.4 + (rating or 0)/5 * 0.6
PopularityFormula(edition_count, rating) ==
  Min(edition_count, 100) * ((4 * (One \div 100)) \div 10)
    + (IF rating = NoneNum THEN 0 ELSE rating) * ((6 * (One \div 50)) \div 10)

\* C24: for a Book with edition_count 0 or more and rating absent or in
\* [0,5], calculate_popularity_score returns
\* min(edition_count/100, 1) * 0.4 + (rating or 0)/5 * 0.6, a value in [0,1]
\* that does not decrease when edition_count or rating grows, and the data
\* providers store this value in popularity_score when they construct a
\* Book.
C24_PopularityFormula ==
  op.name = "search_books" =>
    LET book == result[1]
    IN  /\ book.popularity_score
             = PopularityFormula(book.edition_count, book.rating)
        /\ book.popularity_score >= 0
        /\ book.popularity_score <= One
        /\ \A more \in EditionCounts :
              more >= book.edition_count
                => calculate_popularity_score(more, book.rating)
                     >= book.popularity_score
        /\ \A better \in Ratings \ {NoneNum} :
              (book.rating = NoneNum \/ better >= book.rating)
                => calculate_popularity_score(book.edition_count, better)
                     >= book.popularity_score

\* C24 witness: a Book of more than 100 editions rated 5.0, stored with the
\* popularity score 1.0
C24_Witness ==
  /\ op.name = "search_books"
  /\ result[1].edition_count > 100
  /\ result[1].rating = 50
  /\ result[1].popularity_score = One

\* the spellings of the words of TextWords that the lexicons hold in lower
\* case
PositiveSpellings == {"good", "Great"}
NegativeSpellings == {"dull", "DULL"}

\* C25: analyze returns 0.0 when the text is empty or has no lexicon word,
\* and otherwise (p - n) / (p + n), p and n counting the lower-cased word
\* tokens of the text found in the positive and the negative lexicon; the
\* result lies in [-1, 1]; get_sentiment_label maps a score above 0.3 to
\* "Positive", a score below -0.3 to "Negative", every other score to
\* "Neutral".
C25_Sentiment ==
  /\ op.name = "analyze" =>
       LET p == Cardinality({i \in 1..Len(cands) :
                               cands[i] \in PositiveSpellings})
           n == Cardinality({i \in 1..Len(cands) :
                               cands[i] \in NegativeSpellings})
       IN  /\ result[1] = IF p + n = 0 THEN 0
                          ELSE IF p >= n THEN (One * (p - n)) \div (p + n)
                               ELSE 0 - ((One * (n - p)) \div (p + n))
           /\ result[1] >= 0 - One
           /\ result[1] <= One
  /\ op.name = "get_sentiment_label" =>
       result[1] = IF 10 * cands[1] > 3 * One THEN "Positive"
                   ELSE IF 10 * cands[1] < 0 - 3 * One THEN "Negative"
                        ELSE "Neutral"

\* C25 witness: a text with a capitalised positive word, a positive word,
\* an upper-case negative word and a word of neither lexicon, scored 1/3
C25_Witness ==
  /\ op.name = "analyze"
  /\ Range(cands) = {"Great", "good", "DULL", "story"}
  /\ result[1] = One \div 3

\* C26: a recommender can be constructed for each of the three strategies
\* TFIDF, COLLABORATIVE and HYBRID; it reports the strategy it was
\* constructed with, and after another strategy is assigned it reports, and
\* uses, the strategy assigned.
C26_StrategyReported ==
  /\ (op.name \in {"MLRecommender", "RecommendationEngine"}
        /\ op.arg \in Strategies)
       => (~raised /\ strategy_attr = op.arg)
  /\ op.name = "strategy=" => (strategy_attr = op.arg /\ strategy = op.arg)
  /\ (op.name = "get_recommendations" /\ strategy_attr # Absent)
       => result = get_recommendations(strategy_attr, description, op.target,
                                       op.candidates, op.profile, op.context,
                                       op.top_n, "none")

\* C27: _ensure_diversity returns its input list unchanged when the input
\* has at most top_n items; otherwise it returns exactly top_n items, each
\* an element of the input, none taken twice.
C27_DiversityShape ==
  op.name = "_ensure_diversity" =>
    IF Len(cands) <= op.top_n THEN result = cands
    ELSE /\ Len(result) = op.top_n
         /\ \A r \in Range(result) : Count(r, result) <= Count(r, cands)

\* an entry of the call's history rated 4.0 or more overlaps book b in
\* author or tags
LikedOverlap(b) ==
  \E i \in 1..Len(op.profile.reading_history) :
    LET entry == op.profile.reading_history[i]
    IN  /\ entry.rating # NoneNum
        /\ entry.rating >= 40
        /\ EntrySimilarity(b, entry) > 0

PreferenceCase ==
  /\ op.name = "CollaborativeFilteringRecommender.recommend"
  /\ op.profile.present
  /\ op.profile.reading_history # <<>>
  /\ op.fault = "none"

\* C28: with a non-empty reading history, and no exception in the scoring,
\* CollaborativeFilteringRecommender.recommend returns only candidates whose
\* Preference Matcher score is above 0 and does not fall back to popularity:
\* if no entry is rated 4.0 or more, or no liked entry overlaps a candidate
\* in author or tags, the result is the empty list, whatever popularity
\* scores the candidates have.
C28_NoPopularityFallback ==
  PreferenceCase =>
    /\ ~raised
    /\ \A i \in 1..Len(result) :
          /\ result[i].book \in Range(op.candidates)
          /\ result[i].score > 0
          /\ result[i].algorithm = "Collaborative Filtering"
          /\ LikedOverlap(result[i].book)
    /\ (\A b \in Range(op.candidates) : ~LikedOverlap(b)) => result = <<>>

\* C28 witness: the one entry of the history is rated 4.0, overlaps neither
\* candidate, both candidates have a popularity score, and the result is
\* empty
C28_Witness ==
  /\ PreferenceCase
  /\ \E i \in 1..Len(op.profile.reading_history) :
       op.profile.reading_history[i].rating >= 40
  /\ Len(op.candidates) >= 2
  /\ \A b \in Range(op.candidates) :
       catalog[b].popularity_score > 0 /\ ~LikedOverlap(b)
  /\ result = <<>>

\* the identity of a book: its work_id, or its title when it has none
Identity(b) ==
  IF catalog[b].work_id = None THEN catalog[b].title ELSE catalog[b].work_id

HybridCase ==
  /\ op.name = "get_recommendations"
  /\ strategy = "hybrid"
  /\ op.fault = "none"

\* C29: every recommendation get_recommendations of the hybrid engine
\* returns (no step of the call raising) is for a Book of the candidates
\* list (the target only if it is a candidate), the list has at most top_n
\* entries, and no two entries have the same book identity (work_id, or
\* title when work_id is absent).
C29_HybridResultShape ==
  HybridCase =>
    /\ Len(result) <= op.top_n
    /\ \A i \in 1..Len(result) : result[i].book \in Range(op.candidates)
    /\ \A i, j \in 1..Len(result) :
         i < j => Identity(result[i].book) # Identity(result[j].book)

\* C29 witness: two candidates share their identity (the title, as neither
\* has a work_id), the target is not a candidate, and the result, cut to
\* top_n, holds one of the two
C29_Witness ==
  /\ HybridCase
  /\ op.target \notin Range(op.candidates)
  /\ Len(result) = op.top_n
  /\ Len(op.candidates) > op.top_n
  /\ \E b, c \in Range(op.candidates) :
       /\ b # c
       /\ Identity(b) = Identity(c)
       /\ Emits(result, b)
       /\ ~Emits(result, c)

\* C30: get_mood_based_recommendations treats the mood name without regard
\* to case throughout: the list it returns for a mood (spelled "Happy", say)
\* is the list it returns for the lower-case spelling of that mood on the
\* same candidates, the same books with the same scores, the 1.2 multiplier
\* for a set sentiment_score that aligns with the mood's polarity included.
C30_MoodCaseInsensitive ==
  (op.name = "get_mood_based_recommendations" /\ op.fault = "none") =>
    result = get_mood_based_recommendations(sentiment, op.candidates,
                                            Lower(op.arg), op.top_n)

====
